---- MODULE Spec2Model ----
(***************************************************************************)
(* Model of the mini-mcp security validation and query-gating layer:       *)
(* security/constants, security/validator, security/path-validator, the    *)
(* file writer and the tool handlers that call them.                       *)
(*                                                                         *)
(* Strings are TLC strings; a character is a string of length one, read    *)
(* with SubSeq.  The model's alphabet is ASCII.                            *)
(***************************************************************************)
EXTENDS Integers, Sequences, FiniteSets, TLC

(***************************************************************************)
(* String primitives (JavaScript String methods used by the code).          *)
(***************************************************************************)
CharAt(s, i) == SubSeq(s, i, i)

StartsWith(s, pre) == Len(s) >= Len(pre) /\ SubSeq(s, 1, Len(pre)) = pre

EndsWith(s, suf) ==
    Len(s) >= Len(suf) /\ SubSeq(s, Len(s) - Len(suf) + 1, Len(s)) = suf

Includes(s, sub) ==
    \E i \in 1..(Len(s) - Len(sub) + 1) : SubSeq(s, i, i + Len(sub) - 1) = sub

LowerLetters == "abcdefghijklmnopqrstuvwxyz"
UpperLetters == "ABCDEFGHIJKLMNOPQRSTUVWXYZ"
Digits == "0123456789"

CharsOf(alphabet) == { CharAt(alphabet, i) : i \in 1..Len(alphabet) }

\* the case mappings of the ASCII letters
UpperOf ==
    [c \in CharsOf(LowerLetters) |->
        CharAt(UpperLetters, CHOOSE i \in 1..Len(LowerLetters) : CharAt(LowerLetters, i) = c)]

LowerOf ==
    [c \in CharsOf(UpperLetters) |->
        CharAt(LowerLetters, CHOOSE i \in 1..Len(UpperLetters) : CharAt(UpperLetters, i) = c)]

ToUpperChar(c) == IF c \in DOMAIN UpperOf THEN UpperOf[c] ELSE c

ToLowerChar(c) == IF c \in DOMAIN LowerOf THEN LowerOf[c] ELSE c

RECURSIVE MapChars(_, _, _)
MapChars(s, i, upper) ==
    IF i > Len(s) THEN ""
    ELSE (IF upper THEN ToUpperChar(CharAt(s, i)) ELSE ToLowerChar(CharAt(s, i)))
         \o MapChars(s, i + 1, upper)

toUpperCase(s) == MapChars(s, 1, TRUE)
toLowerCase(s) == MapChars(s, 1, FALSE)

DigitChars == CharsOf(Digits)

WordChars == CharsOf(LowerLetters) \cup CharsOf(UpperLetters) \cup DigitChars \cup {"_"}

\* \w of a JavaScript regular expression: [A-Za-z0-9_]
IsWordChar(c) == c \in WordChars

\* \s of a JavaScript regular expression, over the model's alphabet
IsSpace(c) == c \in {" ", "\t", "\n", "\r"}

IsDigit(c) == c \in DigitChars

RECURSIVE IntToStr(_)
IntToStr(n) ==
    IF n < 10 THEN CharAt(Digits, n + 1)
    ELSE IntToStr(n \div 10) \o CharAt(Digits, (n % 10) + 1)

RECURSIVE Join(_, _)
Join(seq, sep) ==
    IF seq = <<>> THEN ""
    ELSE IF Len(seq) = 1 THEN seq[1]
    ELSE seq[1] \o sep \o Join(Tail(seq), sep)

\* new RegExp(`\\b${keyword}\\b`, "i").test(query), given the query in upper
\* case: the keyword, compared without regard to case, with a word boundary on
\* each side.  The keyword is made of word characters, so a boundary is the
\* string's edge or a non-word character.
WordMatchAt(upperQuery, keyword, i) ==
    /\ i + Len(keyword) - 1 <= Len(upperQuery)
    /\ SubSeq(upperQuery, i, i + Len(keyword) - 1) = keyword
    /\ (i = 1 \/ ~IsWordChar(CharAt(upperQuery, i - 1)))
    /\ (i + Len(keyword) > Len(upperQuery)
        \/ ~IsWordChar(CharAt(upperQuery, i + Len(keyword))))

\* the keyword anywhere in the text, as a substring search would find it
SubstringMatchAt(upperQuery, keyword, i) ==
    /\ i + Len(keyword) - 1 <= Len(upperQuery)
    /\ SubSeq(upperQuery, i, i + Len(keyword) - 1) = keyword

KeywordSubstringTest(upperQuery, keyword) ==
    \E i \in 1..Len(upperQuery) : SubstringMatchAt(upperQuery, keyword, i)

KeywordRegexTest(upperQuery, keyword) ==
    \E i \in 1..Len(upperQuery) : WordMatchAt(upperQuery, keyword, i)

(***************************************************************************)
(* security/constants: the hardcoded rule set.                             *)
(***************************************************************************)
BLOCKED_SQL_KEYWORDS ==
    << "DROP", "DELETE", "TRUNCATE", "ALTER", "CREATE", "INSERT", "UPDATE",
       "GRANT", "REVOKE", "ATTACH", "DETACH" >>

\* Each regular expression of the list is a literal text, anchored at the
\* start of the string (^) or not.
BLOCKED_PATH_PATTERNS ==
    << [anchored |-> FALSE, text |-> ".."],
       [anchored |-> TRUE,  text |-> "/etc/"],
       [anchored |-> TRUE,  text |-> "/var/"],
       [anchored |-> TRUE,  text |-> "/usr/"],
       [anchored |-> TRUE,  text |-> "/bin/"],
       [anchored |-> TRUE,  text |-> "/sbin/"],
       [anchored |-> TRUE,  text |-> "/root"],
       [anchored |-> TRUE,  text |-> "~/."],
       [anchored |-> FALSE, text |-> "/.ssh/"],
       [anchored |-> FALSE, text |-> "/.aws/"],
       [anchored |-> FALSE, text |-> "/.env"],
       [anchored |-> FALSE, text |-> "/node_modules/"] >>

ALLOWED_EXTENSIONS == << ".csv", ".tsv", ".json", ".parquet", ".txt" >>

ABSOLUTE_MAX_FILE_SIZE_MB == 1000

BytesPerMB == 1048576

\* pattern.test(path)
PatternTest(pattern, path) ==
    IF pattern.anchored THEN StartsWith(path, pattern.text)
    ELSE Includes(path, pattern.text)

(***************************************************************************)
(* node:path (posix): resolve, extname, dirname, basename.                 *)
(***************************************************************************)
RECURSIVE SplitFrom(_, _, _)
SplitFrom(s, i, cur) ==
    IF i > Len(s) THEN << cur >>
    ELSE IF CharAt(s, i) = "/" THEN << cur >> \o SplitFrom(s, i + 1, "")
    ELSE SplitFrom(s, i + 1, cur \o CharAt(s, i))

Split(s) == SplitFrom(s, 1, "")

\* normalizeString of an absolute path: "" and "." are dropped, ".." removes
\* the segment before it and is dropped at the root.
RECURSIVE NormSegs(_, _)
NormSegs(segs, acc) ==
    IF segs = <<>> THEN acc
    ELSE LET h == Head(segs)
         IN  NormSegs(Tail(segs),
                 IF h = "" \/ h = "." THEN acc
                 ELSE IF h = ".."
                      THEN (IF acc = <<>> THEN acc ELSE SubSeq(acc, 1, Len(acc) - 1))
                      ELSE Append(acc, h))

\* path.resolve(p) in a process whose working directory is dir
resolve(dir, p) ==
    LET full == IF StartsWith(p, "/") THEN p ELSE dir \o "/" \o p
    IN  "/" \o Join(NormSegs(Split(full), <<>>), "/")

\* the path without its trailing slashes
RECURSIVE StripTrailingSlashes(_)
StripTrailingSlashes(p) ==
    IF Len(p) > 0 /\ CharAt(p, Len(p)) = "/"
    THEN StripTrailingSlashes(SubSeq(p, 1, Len(p) - 1))
    ELSE p

\* the last path segment (trailing slashes ignored)
LastSegment(p) ==
    LET segs == Split(StripTrailingSlashes(p))
    IN  segs[Len(segs)]

\* path.extname(p): from the last dot of the last segment, "" when there is
\* no dot, when the dot is the segment's first character, or for "..".
extname(p) ==
    LET base == LastSegment(p)
        dots == { i \in 1..Len(base) : CharAt(base, i) = "." }
    IN  IF dots = {} THEN ""
        ELSE LET d == CHOOSE i \in dots : \A j \in dots : j <= i
             IN  IF d = 1 \/ base = ".." THEN "" ELSE SubSeq(base, d, Len(base))

\* path.basename(p, ext)
basename(p, ext) ==
    LET base == LastSegment(p)
    IN  IF ext # "" /\ base # ext /\ EndsWith(base, ext)
        THEN SubSeq(base, 1, Len(base) - Len(ext))
        ELSE base

\* path.dirname(p)
dirname(p) ==
    LET cuts == { k \in 2..Len(p) :
                    /\ CharAt(p, k) = "/"
                    /\ \E j \in (k + 1)..Len(p) : CharAt(p, j) # "/" }
    IN  IF cuts = {}
        THEN (IF StartsWith(p, "/") THEN "/" ELSE ".")
        ELSE LET k == CHOOSE c \in cuts : \A c2 \in cuts : c2 <= c
             IN  IF k = 2 /\ StartsWith(p, "/") THEN "//" ELSE SubSeq(p, 1, k - 1)

(***************************************************************************)
(* SecurityCheckResult: a key the code does not set is Undefined.          *)
(***************************************************************************)
Undefined == "<undefined>"

Allowed == [allowed |-> TRUE, reason |-> Undefined, warning |-> Undefined]

Denied(reason) == [allowed |-> FALSE, reason |-> reason, warning |-> Undefined]

\* a permitted operation that carries a caveat
AllowedWithWarning(reason, warning) ==
    [allowed |-> TRUE, reason |-> Undefined, warning |-> warning]

DeniedWithWarning(reason, warning) ==
    [allowed |-> FALSE, reason |-> reason, warning |-> warning]

(***************************************************************************)
(* The filesystem the validators read: fs.files maps the absolute path of  *)
(* each regular file to its size in bytes and to whether stat succeeds on  *)
(* it; fs.dirs is the set of directories.                                  *)
(***************************************************************************)
DirectorySize == 4096

existsSync(fs, absolutePath) ==
    absolutePath \in DOMAIN fs.files \/ absolutePath \in fs.dirs

\* statSync(absolutePath): whether it returns, and the size in bytes
statSync(fs, absolutePath) ==
    IF absolutePath \in DOMAIN fs.files
    THEN [ok |-> fs.files[absolutePath].statOk, size |-> fs.files[absolutePath].size]
    ELSE IF absolutePath \in fs.dirs THEN [ok |-> TRUE, size |-> DirectorySize]
    ELSE [ok |-> FALSE, size |-> 0]

\* (size / (1024 * 1024)).toFixed(1): one decimal, ties rounded up
toFixed1MB(size) ==
    LET whole  == size \div BytesPerMB
        tenths == (((size % BytesPerMB) * 20) + BytesPerMB) \div (2 * BytesPerMB)
    IN  IF tenths = 10 THEN IntToStr(whole + 1) \o ".0"
        ELSE IntToStr(whole) \o "." \o IntToStr(tenths)

\* size / (1024 * 1024) > limitMB
ExceedsMB(size, limitMB) == size > limitMB * BytesPerMB

(***************************************************************************)
(* security/validator: validateFilePath.                                   *)
(***************************************************************************)
\* the patterns consulted on the normalised path alone
MatchesBlockedPatternResolvedOnly(filePath, absolutePath) ==
    \E i \in 1..Len(BLOCKED_PATH_PATTERNS) :
        PatternTest(BLOCKED_PATH_PATTERNS[i], absolutePath)

MatchesBlockedPattern(filePath, absolutePath) ==
    \E i \in 1..Len(BLOCKED_PATH_PATTERNS) :
        \/ PatternTest(BLOCKED_PATH_PATTERNS[i], filePath)
        \/ PatternTest(BLOCKED_PATH_PATTERNS[i], absolutePath)

InList(seq, x) == \E i \in 1..Len(seq) : seq[i] = x

\* config.security.allowedPaths.some(p => absolutePath.startsWith(resolve(p)))
IsInAllowedPath(config, dir, absolutePath) ==
    \E i \in 1..Len(config.allowedPaths) :
        StartsWith(absolutePath, resolve(dir, config.allowedPaths[i]))

LooksLikeNetworkPath(filePath) ==
    \/ StartsWith(filePath, "//")
    \/ StartsWith(filePath, "smb://")
    \/ StartsWith(filePath, "http")

\* the size check without the try/catch outcome: a failed stat is passed over
FileSizeCheckStatsUnchecked(config, fs, absolutePath) ==
    LET stats == statSync(fs, absolutePath)
        size == stats.size
    IN  IF stats.ok /\ ExceedsMB(size, ABSOLUTE_MAX_FILE_SIZE_MB)
        THEN Denied("File size (" \o toFixed1MB(size) \o "MB) exceeds absolute maximum ("
                    \o IntToStr(ABSOLUTE_MAX_FILE_SIZE_MB) \o "MB)")
        ELSE IF stats.ok /\ ExceedsMB(size, config.maxFileSizeMB)
        THEN Denied("File size (" \o toFixed1MB(size) \o "MB) exceeds configured maximum ("
                    \o IntToStr(config.maxFileSizeMB) \o "MB)")
        ELSE Allowed

\* the two ceilings tested in the other order
FileSizeCheckConfiguredFirst(config, fs, absolutePath) ==
    LET stats == statSync(fs, absolutePath)
        size == stats.size
    IN  IF ~stats.ok
        THEN Denied("Cannot read file stats: " \o absolutePath)
        ELSE IF ExceedsMB(size, config.maxFileSizeMB)
        THEN Denied("File size (" \o toFixed1MB(size) \o "MB) exceeds configured maximum ("
                    \o IntToStr(config.maxFileSizeMB) \o "MB)")
        ELSE IF ExceedsMB(size, ABSOLUTE_MAX_FILE_SIZE_MB)
        THEN Denied("File size (" \o toFixed1MB(size) \o "MB) exceeds absolute maximum ("
                    \o IntToStr(ABSOLUTE_MAX_FILE_SIZE_MB) \o "MB)")
        ELSE Allowed

FileSizeCheck(config, fs, absolutePath) ==
    LET stats == statSync(fs, absolutePath)
        size == stats.size
    IN  IF ~stats.ok
        THEN Denied("Cannot read file stats: " \o absolutePath)
        ELSE IF ExceedsMB(size, ABSOLUTE_MAX_FILE_SIZE_MB)
        THEN Denied("File size (" \o toFixed1MB(size) \o "MB) exceeds absolute maximum ("
                    \o IntToStr(ABSOLUTE_MAX_FILE_SIZE_MB) \o "MB)")
        ELSE IF ExceedsMB(size, config.maxFileSizeMB)
        THEN Denied("File size (" \o toFixed1MB(size) \o "MB) exceeds configured maximum ("
                    \o IntToStr(config.maxFileSizeMB) \o "MB)")
        ELSE Allowed

\* validateFilePath with the allowed-paths check ahead of the existence check
validateFilePathContainmentFirst(config, dir, fs, filePath) ==
    LET absolutePath == resolve(dir, filePath)
        ext == toLowerCase(extname(filePath))
    IN  IF MatchesBlockedPattern(filePath, absolutePath)
        THEN Denied("Path blocked by security rules: matches forbidden pattern")
        ELSE IF ~InList(ALLOWED_EXTENSIONS, ext)
        THEN Denied("File extension '" \o ext \o "' not allowed. Allowed: "
                    \o Join(ALLOWED_EXTENSIONS, ", "))
        ELSE IF ~IsInAllowedPath(config, dir, absolutePath)
        THEN Denied("Path '" \o filePath \o "' is not within allowed paths: "
                    \o Join(config.allowedPaths, ", "))
        ELSE IF ~existsSync(fs, absolutePath)
        THEN Denied("File not found: " \o absolutePath)
        ELSE IF ~config.allowNetworkPaths /\ LooksLikeNetworkPath(filePath)
        THEN DeniedWithWarning("Network paths are not allowed (allowNetworkPaths = false)",
                               "Enable allowNetworkPaths in config to allow network access")
        ELSE FileSizeCheck(config, fs, absolutePath)

validateFilePath(config, dir, fs, filePath) ==
    LET absolutePath == resolve(dir, filePath)
        ext == toLowerCase(extname(filePath))
    IN  IF MatchesBlockedPattern(filePath, absolutePath)
        THEN Denied("Path blocked by security rules: matches forbidden pattern")
        ELSE IF ~InList(ALLOWED_EXTENSIONS, ext)
        THEN Denied("File extension '" \o ext \o "' not allowed. Allowed: "
                    \o Join(ALLOWED_EXTENSIONS, ", "))
        ELSE IF ~existsSync(fs, absolutePath)
        THEN Denied("File not found: " \o absolutePath)
        ELSE IF ~IsInAllowedPath(config, dir, absolutePath)
        THEN Denied("Path '" \o filePath \o "' is not within allowed paths: "
                    \o Join(config.allowedPaths, ", "))
        ELSE IF ~config.allowNetworkPaths /\ LooksLikeNetworkPath(filePath)
        THEN DeniedWithWarning("Network paths are not allowed (allowNetworkPaths = false)",
                               "Enable allowNetworkPaths in config to allow network access")
        ELSE FileSizeCheck(config, fs, absolutePath)

(***************************************************************************)
(* security/validator: validateQuery.                                      *)
(***************************************************************************)
\* the first keyword of BLOCKED_SQL_KEYWORDS the query matches, 0 if none
FirstBlockedKeyword(upperQuery) ==
    LET hits == { i \in 1..Len(BLOCKED_SQL_KEYWORDS) :
                    KeywordRegexTest(upperQuery, BLOCKED_SQL_KEYWORDS[i]) }
    IN  IF hits = {} THEN 0 ELSE CHOOSE i \in hits : \A j \in hits : i <= j

IsCopyTo(upperQuery) == Includes(upperQuery, "COPY") /\ Includes(upperQuery, "TO")

HasWriteFunction(upperQuery) ==
    Includes(upperQuery, "EXPORT_") \/ Includes(upperQuery, "WRITE_")

\* the write-function rule applied whatever readOnly is
validateQueryIgnoringReadOnly(config, query) ==
    LET upperQuery == toUpperCase(query)
        k == FirstBlockedKeyword(upperQuery)
    IN  IF k # 0
        THEN Denied("SQL operation '" \o BLOCKED_SQL_KEYWORDS[k] \o "' is not allowed")
        ELSE IF IsCopyTo(upperQuery)
        THEN Denied("COPY TO operations are not allowed")
        ELSE IF HasWriteFunction(upperQuery)
        THEN DeniedWithWarning("Export/write functions not allowed in readOnly mode",
                               "Set readOnly: false in config to enable write operations")
        ELSE Allowed

\* the rules in another order: COPY/TO and the write functions first
validateQueryKeywordsLast(config, query) ==
    LET upperQuery == toUpperCase(query)
        k == FirstBlockedKeyword(upperQuery)
    IN  IF IsCopyTo(upperQuery)
        THEN Denied("COPY TO operations are not allowed")
        ELSE IF config.readOnly /\ HasWriteFunction(upperQuery)
        THEN DeniedWithWarning("Export/write functions not allowed in readOnly mode",
                               "Set readOnly: false in config to enable write operations")
        ELSE IF k # 0
        THEN Denied("SQL operation '" \o BLOCKED_SQL_KEYWORDS[k] \o "' is not allowed")
        ELSE Allowed

validateQuery(config, query) ==
    LET upperQuery == toUpperCase(query)
        k == FirstBlockedKeyword(upperQuery)
    IN  IF k # 0
        THEN Denied("SQL operation '" \o BLOCKED_SQL_KEYWORDS[k] \o "' is not allowed")
        ELSE IF IsCopyTo(upperQuery)
        THEN Denied("COPY TO operations are not allowed")
        ELSE IF config.readOnly /\ HasWriteFunction(upperQuery)
        THEN DeniedWithWarning("Export/write functions not allowed in readOnly mode",
                               "Set readOnly: false in config to enable write operations")
        ELSE Allowed

(***************************************************************************)
(* security/path-validator: validatePath.                                  *)
(***************************************************************************)
\* validatePath with the parent-directory check ahead of the containment check
validatePathParentFirst(config, dir, fs, outputPath) ==
    LET absolutePath == resolve(dir, outputPath)
        parentDir == dirname(absolutePath)
    IN  IF MatchesBlockedPattern(outputPath, absolutePath)
        THEN Denied("Output path blocked by security rules: matches forbidden pattern")
        ELSE IF ~existsSync(fs, parentDir)
        THEN Denied("Parent directory does not exist: " \o parentDir)
        ELSE IF ~IsInAllowedPath(config, dir, absolutePath)
        THEN Denied("Output path '" \o outputPath \o "' is not within allowed paths: "
                    \o Join(config.allowedPaths, ", "))
        ELSE Allowed

validatePath(config, dir, fs, outputPath) ==
    LET absolutePath == resolve(dir, outputPath)
        parentDir == dirname(absolutePath)
    IN  IF MatchesBlockedPattern(outputPath, absolutePath)
        THEN Denied("Output path blocked by security rules: matches forbidden pattern")
        ELSE IF ~IsInAllowedPath(config, dir, absolutePath)
        THEN Denied("Output path '" \o outputPath \o "' is not within allowed paths: "
                    \o Join(config.allowedPaths, ", "))
        ELSE IF ~existsSync(fs, parentDir)
        THEN Denied("Parent directory does not exist: " \o parentDir)
        ELSE Allowed

(***************************************************************************)
(* Regular-expression primitives for the tools' patterns.                  *)
(***************************************************************************)
\* the literal lit occurs in s at position i
LitAt(s, i, lit) ==
    i >= 1 /\ i + Len(lit) - 1 <= Len(s) /\ SubSeq(s, i, i + Len(lit) - 1) = lit

\* a character class of the patterns: \s, \w, \d or [^'"]
InClass(c, class) ==
    CASE class = "\\s" -> c \in {" ", "\t", "\n", "\r"}
      [] class = "\\w" -> c \in WordChars
      [] class = "\\d" -> c \in DigitChars
      [] class = "[^'\"]" -> c # "'" /\ c # "\""

\* the last position of the longest run of characters of the class that
\* starts at i (i - 1 when the run is empty): a greedy class*
RunEnd(s, i, class) ==
    CHOOSE j \in (i - 1)..Len(s) :
        /\ \A k \in i..j : InClass(CharAt(s, k), class)
        /\ (j = Len(s) \/ ~InClass(CharAt(s, j + 1), class))

\* the least element of a non-empty set of integers
Least(S) == CHOOSE i \in S : \A j \in S : i <= j

\* the greatest element of a non-empty set of integers
Greatest(S) == CHOOSE i \in S : \A j \in S : j <= i

\* String.prototype.trim
trim(s) ==
    LET keep == { i \in 1..Len(s) : ~IsSpace(CharAt(s, i)) }
    IN  IF keep = {} THEN "" ELSE SubSeq(s, Least(keep), Greatest(keep))

\* the literals of alts that occur in s at position i
AltsAt(s, i, alts) == { a \in alts : LitAt(s, i, a) }

(***************************************************************************)
(* tools/query-data: isSQLQuery and translateToSQL.                        *)
(***************************************************************************)
\* /^\s*(kw1|kw2|...)\b/i.test(text.trim())
StartsWithKeyword(text, keywords) ==
    LET t == trim(text)
    IN  \E k \in keywords :
            /\ LitAt(toUpperCase(t), 1, k)
            /\ (Len(t) = Len(k) \/ ~IsWordChar(CharAt(t, Len(k) + 1)))

isSQLQuery(query) ==
    StartsWithKeyword(query, {"SELECT", "WITH", "SHOW", "DESCRIBE", "EXPLAIN", "PRAGMA"})

\* /^(show|get|display)\s+(all|everything|data)/.test(q)
IsShowAll(q) ==
    \E v \in {"show", "get", "display"} :
        /\ LitAt(q, 1, v)
        /\ LET e == RunEnd(q, Len(v) + 1, "\\s")
           IN  /\ e >= Len(v) + 1
               /\ AltsAt(q, e + 1, {"all", "everything", "data"}) # {}

\* /^(count|how many)/.test(q)
IsCount(q) == LitAt(q, 1, "count") \/ LitAt(q, 1, "how many")

NoMatch == [found |-> FALSE, g1 |-> "", g2 |-> "", g3 |-> ""]

\* word\s+(\w+) at position i: the captured word, "" when there is no match
WordThenName(q, i, word) ==
    IF ~LitAt(q, i, word) THEN ""
    ELSE LET e == RunEnd(q, i + Len(word), "\\s")
             w == RunEnd(q, e + 1, "\\w")
         IN  IF e >= i + Len(word) /\ w >= e + 1 THEN SubSeq(q, e + 1, w) ELSE ""

\* q.match(/by\s+(\w+)/)
MatchGroupBy(q) ==
    LET at == { i \in 1..Len(q) : WordThenName(q, i, "by") # "" }
    IN  IF at = {} THEN NoMatch
        ELSE [NoMatch EXCEPT !.found = TRUE, !.g1 = WordThenName(q, Least(at), "by")]

\* (?:word\s+)?(\w+) at position p: the captured name, "" when no match
OptionalWordThenName(q, p, word) ==
    IF WordThenName(q, p, word) # "" THEN WordThenName(q, p, word)
    ELSE LET w == RunEnd(q, p, "\\w")
         IN  IF w >= p THEN SubSeq(q, p, w) ELSE ""

\* top\s+(\d+)\s+(?:by\s+)?(\w+) at position i
TopAt(q, i) ==
    IF ~LitAt(q, i, "top") THEN NoMatch
    ELSE LET s1 == RunEnd(q, i + 3, "\\s")
             d  == RunEnd(q, s1 + 1, "\\d")
             s2 == RunEnd(q, d + 1, "\\s")
         IN  IF s1 >= i + 3 /\ d >= s1 + 1 /\ s2 >= d + 1
                /\ OptionalWordThenName(q, s2 + 1, "by") # ""
             THEN [NoMatch EXCEPT !.found = TRUE,
                                  !.g1 = SubSeq(q, s1 + 1, d),
                                  !.g2 = OptionalWordThenName(q, s2 + 1, "by")]
             ELSE NoMatch

\* q.match(/top\s+(\d+)\s+(?:by\s+)?(\w+)/)
MatchTop(q) ==
    LET at == { i \in 1..Len(q) : TopAt(q, i).found }
    IN  IF at = {} THEN NoMatch ELSE TopAt(q, Least(at))

AggregateWords == {"average", "avg", "sum", "total", "min", "max"}

\* (average|avg|sum|total|min|max)\s+(?:of\s+)?(\w+) at position i
AggAt(q, i) ==
    LET alts == AltsAt(q, i, AggregateWords)
    IN  IF alts = {} THEN NoMatch
        ELSE LET a == CHOOSE x \in alts : TRUE
                 e == RunEnd(q, i + Len(a), "\\s")
             IN  IF e >= i + Len(a) /\ OptionalWordThenName(q, e + 1, "of") # ""
                 THEN [NoMatch EXCEPT !.found = TRUE, !.g1 = a,
                                      !.g2 = OptionalWordThenName(q, e + 1, "of")]
                 ELSE NoMatch

\* q.match(/(average|avg|sum|total|min|max)\s+(?:of\s+)?(\w+)/)
MatchAgg(q) ==
    LET at == { i \in 1..Len(q) : AggAt(q, i).found }
    IN  IF at = {} THEN NoMatch ELSE AggAt(q, Least(at))

IsQuote(c) == c = "'" \/ c = "\""

IsNotQuote(c) == ~IsQuote(c)

\* the operator alternatives in the order the pattern tries them; ">" and "<"
\* come before ">=" and "<=", and whatever follows them is taken as the value
WhereOperators == << "=", ">", "<", ">=", "<=", "contains" >>

\* \s*['"]?([^'"]+) from position p: where the value starts, 0 when nothing
\* matches.  The greedy \s* gives back its last space when no value follows.
ValueStart(q, p) ==
    LET m == RunEnd(q, p, "\\s")
        v == m + 1
    IN  IF v + 1 <= Len(q) /\ IsQuote(CharAt(q, v)) /\ IsNotQuote(CharAt(q, v + 1))
        THEN v + 1
        ELSE IF v <= Len(q) /\ IsNotQuote(CharAt(q, v)) THEN v
        ELSE IF m >= p THEN m
        ELSE 0

\* \s*(=|>|<|>=|<=|contains)\s*['"]?([^'"]+) after a column name ending at w
WhereTail(q, w) ==
    LET o == RunEnd(q, w + 1, "\\s") + 1
        ops == { k \in 1..Len(WhereOperators) :
                   /\ LitAt(q, o, WhereOperators[k])
                   /\ ValueStart(q, o + Len(WhereOperators[k])) # 0 }
    IN  IF ops = {} THEN NoMatch
        ELSE LET op == WhereOperators[Least(ops)]
                 v  == ValueStart(q, o + Len(op))
             IN  [NoMatch EXCEPT !.found = TRUE, !.g2 = op,
                                 !.g3 = SubSeq(q, v, RunEnd(q, v, "[^'\"]"))]

\* where\s+(\w+)\s*(=|>|<|>=|<=|contains)\s*['"]?([^'"]+)['"]? at position i:
\* the greedy \w+ takes the longest column name after which the rest matches
WhereAt(q, i) ==
    IF ~LitAt(q, i, "where") THEN NoMatch
    ELSE LET s1 == RunEnd(q, i + 5, "\\s")
             wmax == RunEnd(q, s1 + 1, "\\w")
             ends == { w \in (s1 + 1)..wmax : WhereTail(q, w).found }
         IN  IF s1 < i + 5 \/ ends = {} THEN NoMatch
             ELSE [WhereTail(q, Greatest(ends)) EXCEPT
                       !.g1 = SubSeq(q, s1 + 1, Greatest(ends))]

MatchWhere(q) ==
    LET at == { i \in 1..Len(q) : WhereAt(q, i).found }
    IN  IF at = {} THEN NoMatch ELSE WhereAt(q, Least(at))

\* a non-empty run of decimal digits fills s[i..j]
AllDigits(s, i, j) == i <= j /\ \A k \in i..j : IsDigit(CharAt(s, k))

\* digits, digits.digits, digits. or .digits fills s[i..j]
IsDecimalMantissa(s, i, j) ==
    \/ AllDigits(s, i, j)
    \/ \E d \in i..j :
          /\ CharAt(s, d) = "."
          /\ (d > i \/ d < j)
          /\ (d = i \/ AllDigits(s, i, d - 1))
          /\ (d = j \/ AllDigits(s, d + 1, j))

\* !isNaN(Number(text)) for a lower-case text: empty or blank is 0; an
\* optionally signed decimal literal with an optional exponent; a 0x, 0o or
\* 0b literal.  ("infinity" in lower case is NaN.)
IsJsNumber(text) ==
    LET t == trim(text)
        b == IF LitAt(t, 1, "+") \/ LitAt(t, 1, "-") THEN 2 ELSE 1
        es == { e \in b..Len(t) : CharAt(t, e) = "e" }
    IN  \/ t = ""
        \/ /\ LitAt(t, 1, "0x")
           /\ Len(t) > 2
           /\ \A k \in 3..Len(t) : IsDigit(CharAt(t, k)) \/ CharAt(t, k) \in {"a", "b", "c", "d", "e", "f"}
        \/ /\ LitAt(t, 1, "0o")
           /\ Len(t) > 2
           /\ \A k \in 3..Len(t) : CharAt(t, k) \in {"0", "1", "2", "3", "4", "5", "6", "7"}
        \/ /\ LitAt(t, 1, "0b")
           /\ Len(t) > 2
           /\ \A k \in 3..Len(t) : CharAt(t, k) \in {"0", "1"}
        \/ IsDecimalMantissa(t, b, Len(t))
        \/ \E e \in es :
              /\ IsDecimalMantissa(t, b, e - 1)
              /\ LET x == IF LitAt(t, e + 1, "+") \/ LitAt(t, e + 1, "-") THEN e + 2 ELSE e + 1
                 IN  AllDigits(t, x, Len(t))

AggregateFunction(word) ==
    IF word = "average" THEN "AVG"
    ELSE IF word = "total" THEN "SUM"
    ELSE toUpperCase(word)

\* the patterns of translateToSQL in the order it tries them, given the
\* normalised query q and the matches it computes
TranslatePatterns(q, tableName, groupBy, top, agg, where) ==
        IF IsShowAll(q) THEN "SELECT * FROM " \o tableName
        ELSE IF IsCount(q)
        THEN (IF groupBy.found
              THEN "SELECT " \o groupBy.g1 \o ", COUNT(*) as count FROM " \o tableName
                   \o " GROUP BY " \o groupBy.g1 \o " ORDER BY count DESC"
              ELSE "SELECT COUNT(*) as total FROM " \o tableName)
        ELSE IF top.found
        THEN "SELECT * FROM " \o tableName \o " ORDER BY " \o top.g2
             \o " DESC LIMIT " \o top.g1
        ELSE IF agg.found
        THEN (IF groupBy.found
              THEN "SELECT " \o groupBy.g1 \o ", " \o AggregateFunction(agg.g1) \o "("
                   \o agg.g2 \o ") as " \o agg.g1 \o " FROM " \o tableName
                   \o " GROUP BY " \o groupBy.g1
              ELSE "SELECT " \o AggregateFunction(agg.g1) \o "(" \o agg.g2 \o ") as "
                   \o agg.g1 \o " FROM " \o tableName)
        ELSE IF where.found
        THEN "SELECT * FROM " \o tableName \o " WHERE " \o where.g1 \o " "
             \o (IF where.g2 = "contains" THEN "LIKE" ELSE where.g2) \o " "
             \o (IF where.g2 = "contains" THEN "'%" \o where.g3 \o "%'"
                 ELSE IF ~IsJsNumber(where.g3) THEN "'" \o where.g3 \o "'"
                 ELSE where.g3)
        ELSE "SELECT * FROM " \o tableName \o " LIMIT 100"

translateToSQL(nlQuery, tableName) ==
    LET q == trim(toLowerCase(nlQuery))
    IN  TranslatePatterns(q, tableName, MatchGroupBy(q), MatchTop(q), MatchAgg(q),
                          MatchWhere(q))

(***************************************************************************)
(* The tool handlers.  A handler works on st, the process state it reads   *)
(* (config, cwd, fs, tables, engine), and yields its outcome: the error it *)
(* throws (Undefined when it returns), the state it leaves, and trace, the *)
(* calls it made to the validators, the engine and the filesystem, in      *)
(* order.  The engine is opaque: failAt is the number of the engine call   *)
(* that throws (engine error or query timeout), 0 when none does.          *)
(***************************************************************************)
Event(ev, text, allowed) == [ev |-> ev, text |-> text, allowed |-> allowed]

Return(st, trace) ==
    [error |-> Undefined, trace |-> trace,
     fs |-> st.fs, tables |-> st.tables, engine |-> st.engine]

Throw(st, trace, message) ==
    [error |-> message, trace |-> trace,
     fs |-> st.fs, tables |-> st.tables, engine |-> st.engine]

EngineError == "Engine: query failed"

\* executeQuery's timer wins the race against the engine: failAt = TimedOut
TimedOut == -1

QueryTimedOut == "Query timed out after 30000ms. Consider simplifying your query."

\* store.getTableMetadata(): the registry is a Map, kept here as the sequence
\* of its entries in insertion order
TableIndex(tables, name) ==
    LET at == { i \in 1..Len(tables) : tables[i].name = name }
    IN  IF at = {} THEN 0 ELSE CHOOSE i \in at : TRUE

HasTable(tables, name) == TableIndex(tables, name) # 0

TableNames(tables) == [i \in 1..Len(tables) |-> tables[i].name]

\* Array.from(metadata.keys()).join(", ") || "none"
AvailableTables(tables) ==
    IF Join(TableNames(tables), ", ") = "" THEN "none"
    ELSE Join(TableNames(tables), ", ")

\* validateQuery(sql), then store.executeQuery(sql): the tail shared by
\* query_data, export_data and visualize_data
ValidateThenExecute(st, sql, failAt) ==
    LET queryCheck == validateQuery(st.config, sql)
        validated == << Event("validateQuery", sql, queryCheck.allowed) >>
        executed == Append(validated, Event("executeQuery", sql, TRUE))
    IN  IF ~queryCheck.allowed
        THEN Throw(st, validated, "Security: " \o queryCheck.reason)
        ELSE IF failAt = 1 THEN Throw(st, executed, EngineError)
        ELSE IF failAt = TimedOut THEN Throw(st, executed, QueryTimedOut)
        ELSE Return(st, executed)

\* tools/query-data: queryData.  tableName "" is an absent argument.
queryData(st, query, tableName, failAt) ==
    LET target == IF tableName # "" THEN tableName
                  ELSE IF st.tables # <<>> THEN st.tables[1].name
                  ELSE ""
    IN  IF isSQLQuery(query) THEN ValidateThenExecute(st, query, failAt)
        ELSE IF target = ""
        THEN Throw(st, <<>>, "No tables loaded. Use load_data first.")
        ELSE ValidateThenExecute(st, translateToSQL(query, target), failAt)

\* tools/export-data and tools/visualize-data: isSQLQuery
isSQLSource(source) == StartsWithKeyword(source, {"SELECT", "WITH"})

getSupportedExportFormats == << "csv", "json", "jsonl", "markdown" >>

\* the directories a recursive mkdir of absoluteDir makes sure exist
SelfAndAncestors(absoluteDir) ==
    LET segs == NormSegs(Split(absoluteDir), <<>>)
    IN  { "/" \o Join(SubSeq(segs, 1, k), "/") : k \in 0..Len(segs) }

canWriteFiles(config) == ~config.readOnly

\* a writer that goes on whatever validatePath answered
writeExportIgnoringPathCheck(st, trace, outputPath, bytes) ==
    LET pathCheck == validatePath(st.config, st.cwd, st.fs, outputPath)
        target == resolve(st.cwd, outputPath)
        events == trace \o << Event("validatePath", outputPath, pathCheck.allowed),
                              Event("writeFile", target, TRUE) >>
    IN  IF st.config.readOnly
        THEN Throw(st, trace, "Cannot write files: readOnly mode is enabled. Use serialize() to get data as string instead.")
        ELSE [Return(st, events) EXCEPT
                  !.fs.files = [f \in (DOMAIN @) \cup {target} |->
                                   IF f = target
                                   THEN [size |-> bytes, statOk |-> TRUE,
                                         parseOk |-> TRUE, columns |-> <<>>,
                                         rowCount |-> 0]
                                   ELSE @[f]]]

\* exporters/file-writer: writeExport(content, outputPath, rowCount), where
\* bytes is the content's length
writeExport(st, trace, outputPath, bytes) ==
    LET pathCheck == validatePath(st.config, st.cwd, st.fs, outputPath)
        checked == Append(trace, Event("validatePath", outputPath, pathCheck.allowed))
        dir == resolve(st.cwd, dirname(outputPath))
        made == Append(checked, Event("mkdir", dir, TRUE))
        withDirs == [st.fs EXCEPT !.dirs = @ \cup SelfAndAncestors(dir)]
        target == resolve(st.cwd, outputPath)
        written == Append(made, Event("writeFile", target, TRUE))
        newFile == [size |-> bytes, statOk |-> TRUE, parseOk |-> TRUE,
                    columns |-> <<>>, rowCount |-> 0]
        withFile == [withDirs EXCEPT !.files =
                        [f \in (DOMAIN @) \cup {target} |->
                            IF f = target THEN newFile ELSE @[f]]]
    IN  IF st.config.readOnly
        THEN Throw(st, trace, "Cannot write files: readOnly mode is enabled. Use serialize() to get data as string instead.")
        ELSE IF ~pathCheck.allowed
        THEN Throw(st, checked, "Cannot write to path: " \o pathCheck.reason)
        ELSE IF SelfAndAncestors(dir) \cap DOMAIN st.fs.files # {}
        THEN Throw(st, made, "EEXIST: file already exists, mkdir")
        ELSE IF target \in withDirs.dirs
        THEN [Throw(st, written, "EISDIR: illegal operation on a directory, open")
                 EXCEPT !.fs = withDirs]
        ELSE [Return(st, written) EXCEPT !.fs = withFile]

\* tools/export-data: exportDataTool.  outputPath "" is an absent argument.
exportDataTool(st, source, format, outputPath, failAt, bytes) ==
    LET sql == IF isSQLSource(source) THEN source ELSE "SELECT * FROM " \o source
        queried == ValidateThenExecute(st, sql, failAt)
    IN  IF ~InList(getSupportedExportFormats, format)
        THEN Throw(st, <<>>, "Unsupported format '" \o format \o "'. Supported: "
                             \o Join(getSupportedExportFormats, ", "))
        ELSE IF ~isSQLSource(source) /\ ~HasTable(st.tables, source)
        THEN Throw(st, <<>>, "Table '" \o source \o "' not found. Available: "
                             \o AvailableTables(st.tables))
        ELSE IF queried.error # Undefined THEN queried
        ELSE IF outputPath = "" THEN queried
        ELSE IF ~canWriteFiles(st.config)
        THEN Throw(st, queried.trace, "File export disabled (readOnly: true). Set readOnly: false in config to enable.")
        ELSE writeExport(st, queried.trace, outputPath, bytes)

\* tools/visualize-data: visualizeData.  chartable says whether the result
\* has a label column and a numeric value column to draw.
visualizeData(st, source, failAt, chartable) ==
    LET sql == IF isSQLSource(source) THEN source ELSE "SELECT * FROM " \o source
        queried == ValidateThenExecute(st, sql, failAt)
    IN  IF ~isSQLSource(source) /\ ~HasTable(st.tables, source)
        THEN Throw(st, <<>>, "Table '" \o source \o "' not found. Available: "
                             \o AvailableTables(st.tables))
        ELSE IF queried.error # Undefined THEN queried
        ELSE IF ~chartable
        THEN Throw(st, queried.trace, "Visualization requires at least 2 columns (label and value)")
        ELSE queried

\* name.replace(/[^a-zA-Z0-9_]/g, "_")
RECURSIVE SanitizeFrom(_, _)
SanitizeFrom(name, i) ==
    IF i > Len(name) THEN ""
    ELSE (IF IsWordChar(CharAt(name, i)) THEN CharAt(name, i) ELSE "_")
         \o SanitizeFrom(name, i + 1)

sanitizeName(name) == SanitizeFrom(name, 1)

\* store.escapeName: `"${name.replace(/"/g, '""')}"`
RECURSIVE DoubleQuotesFrom(_, _)
DoubleQuotesFrom(name, i) ==
    IF i > Len(name) THEN ""
    ELSE (IF CharAt(name, i) = "\"" THEN "\"\"" ELSE CharAt(name, i))
         \o DoubleQuotesFrom(name, i + 1)

escapeName(name) == "\"" \o DoubleQuotesFrom(name, 1) \o "\""

IsNumericType(type) == type \in {"INTEGER", "BIGINT", "DOUBLE"}

\* store.getTableStats: the statistics query of one column (the template's
\* line breaks and indentation are written as single spaces)
StatsQuery(tableName, col) ==
    "SELECT COUNT(*) - COUNT(" \o escapeName(col.name) \o ") as null_count, "
    \o "COUNT(DISTINCT " \o escapeName(col.name) \o ") as distinct_count, "
    \o "MIN(" \o escapeName(col.name) \o ") as min_val, "
    \o "MAX(" \o escapeName(col.name) \o ") as max_val"
    \o (IF IsNumericType(col.type)
        THEN ", AVG(" \o escapeName(col.name) \o ") as mean_val, "
             \o "STDDEV(" \o escapeName(col.name) \o ") as stddev_val"
        ELSE "")
    \o " FROM " \o escapeName(tableName)

\* tools/describe-data: describeData.  column "" is an absent argument.  The
\* engine calls are one statistics query per column (store.getTableStats),
\* then the sample query.
describeData(st, tableName, column, failAt) ==
    LET i == TableIndex(st.tables, tableName)
        columns == st.tables[i].columns
        n == Len(columns)
        stats == [k \in 1..n |->
                    Event("executeQuery", StatsQuery(tableName, columns[k]), TRUE)]
        sampleQuery == IF column # ""
                       THEN "SELECT " \o column \o " FROM " \o tableName \o " LIMIT 5"
                       ELSE "SELECT * FROM " \o tableName \o " LIMIT 5"
        sampled == Append(stats, Event("executeQuery", sampleQuery, TRUE))
    IN  IF i = 0
        THEN Throw(st, <<>>, "Table '" \o tableName \o "' not found. Available tables: "
                             \o AvailableTables(st.tables))
        ELSE IF failAt \in 1..n THEN Throw(st, SubSeq(stats, 1, failAt), EngineError)
        ELSE IF column # "" /\ ~\E k \in 1..n : columns[k].name = column
        THEN Throw(st, stats, "Column '" \o column \o "' not found in table '"
                              \o tableName \o "'")
        ELSE IF failAt = n + 1 THEN Throw(st, sampled, EngineError)
        ELSE Return(st, sampled)

BATCH_SIZE == 1000

ColumnDefs(columns) ==
    Join([k \in 1..Len(columns) |-> escapeName(columns[k].name) \o " " \o columns[k].type],
         ", ")

\* store.loadTable(tableName, columns, rows, filePath): the engine runs DROP
\* TABLE IF EXISTS, CREATE TABLE and one INSERT per batch of BATCH_SIZE rows,
\* then the registry entry is set.  failAt numbers the engine run that throws.
loadTable(st, trace, tableName, columns, rowCount, filePath, failAt) ==
    LET safeName == sanitizeName(tableName)
        batches == (rowCount + BATCH_SIZE - 1) \div BATCH_SIZE
        runs == << Event("run", "DROP TABLE IF EXISTS " \o escapeName(safeName), TRUE),
                   Event("run", "CREATE TABLE " \o escapeName(safeName) \o " ("
                                \o ColumnDefs(columns) \o ")", TRUE) >>
                \o [b \in 1..batches |->
                      Event("run", "INSERT INTO " \o escapeName(safeName) \o " VALUES", TRUE)]
        metadata == [name |-> safeName, filePath |-> filePath,
                     rowCount |-> rowCount, columns |-> columns]
        i == TableIndex(st.tables, safeName)
        registered == IF i = 0 THEN Append(st.tables, metadata)
                      ELSE [st.tables EXCEPT ![i] = metadata]
    IN  IF Len(st.tables) >= st.config.maxTablesLoaded
        THEN Throw(st, trace, "Maximum tables (" \o IntToStr(st.config.maxTablesLoaded)
                              \o ") already loaded. Drop a table first.")
        ELSE IF failAt = 1 THEN Throw(st, trace \o SubSeq(runs, 1, 1), EngineError)
        ELSE IF failAt = 2
        THEN [Throw(st, trace \o SubSeq(runs, 1, 2), EngineError)
                 EXCEPT !.engine = st.engine \ {safeName}]
        ELSE IF failAt \in 3..Len(runs)
        THEN [Throw(st, trace \o SubSeq(runs, 1, failAt), EngineError)
                 EXCEPT !.engine = st.engine \cup {safeName}]
        ELSE [Return(st, trace \o runs)
                 EXCEPT !.engine = st.engine \cup {safeName}, !.tables = registered]

\* parsers/parser-factory: getParser(ext), "" when no parser claims it
getParser(ext) ==
    LET e == toLowerCase(ext)
    IN  IF EndsWith(e, ".csv") \/ EndsWith(e, ".tsv") THEN "CSVParser"
        ELSE IF EndsWith(e, ".json") \/ EndsWith(e, ".jsonl") THEN "JSONParser"
        ELSE IF EndsWith(e, ".parquet") \/ EndsWith(e, ".pq") THEN "ParquetParser"
        ELSE ""

\* tools/load-data: loadData.  tableName "" is an absent argument.  What the
\* parser makes of a file's content is the file's parseOk, columns, rowCount.
loadData(st, filePath, tableName, failAt) ==
    LET absolutePath == resolve(st.cwd, filePath)
        pathCheck == validateFilePath(st.config, st.cwd, st.fs, absolutePath)
        checked == << Event("validateFilePath", absolutePath, pathCheck.allowed) >>
        ext == toLowerCase(extname(absolutePath))
        read == Append(checked, Event("readFile", absolutePath, TRUE))
        file == st.fs.files[absolutePath]
        name == IF tableName # "" THEN tableName
                ELSE sanitizeName(basename(absolutePath, ext))
    IN  IF ~pathCheck.allowed THEN Throw(st, checked, "Security: " \o pathCheck.reason)
        ELSE IF Len(st.tables) >= st.config.maxTablesLoaded
        THEN Throw(st, checked, "Maximum table limit reached ("
                                \o IntToStr(st.config.maxTablesLoaded)
                                \o "). Use list_tables to see loaded tables.")
        ELSE IF getParser(ext) = ""
        THEN Throw(st, checked, "Unsupported file format: " \o ext)
        ELSE IF absolutePath \notin DOMAIN st.fs.files
        THEN Throw(st, read, "EISDIR: illegal operation on a directory, read")
        ELSE IF ~file.parseOk THEN Throw(st, read, "Parse error")
        ELSE loadTable(st, read, name, file.columns, file.rowCount, absolutePath, failAt)

(***************************************************************************)
(* The process state.                                                      *)
(*   config  the cached configuration snapshot (security section, and the  *)
(*           table limit)                                                  *)
(*   cwd     the working directory path.resolve starts from                *)
(*   fs      the filesystem                                                *)
(*   tables  the store's registry, in insertion order                      *)
(*   engine  the names of the tables that exist in the engine              *)
(*   call    the last call made and what it gave                           *)
(***************************************************************************)
VARIABLES config, cwd, fs, tables, engine, call

vars == << config, cwd, fs, tables, engine, call >>

State == [config |-> config, cwd |-> cwd, fs |-> fs, tables |-> tables, engine |-> engine]

Column(name, type) == [name |-> name, type |-> type]

PlainFile(size) ==
    [size |-> size, statOk |-> TRUE, parseOk |-> FALSE, columns |-> <<>>, rowCount |-> 0]

DataFile(size, columns, rowCount) ==
    [size |-> size, statOk |-> TRUE, parseOk |-> TRUE, columns |-> columns,
     rowCount |-> rowCount]

PeopleColumns == << Column("id", "INTEGER"), Column("name", "VARCHAR") >>

SalesColumns == << Column("region", "VARCHAR"), Column("amount", "DOUBLE") >>

\* The files of the model's filesystem: data files inside and outside the data
\* directory, sizes on both sides of the 1 MB, 100 MB and 1000 MB limits, a
\* file whose stat fails, names that match forbidden patterns.
InitialFiles ==
    [p \in { "/w/data/a.csv", "/w/data/sales.json", "/w/data/bad.csv",
             "/w/data/notes.txt", "/w/data/a.exe", "/w/data/A.CSV",
             "/w/data/x..y.csv", "/w/data/one.csv", "/w/data/over1.csv",
             "/w/data/mid.csv", "/w/data/edge.csv", "/w/data/big.csv",
             "/w/data/locked.csv", "/w/data-private/x.csv", "/tmp/t.csv",
             "/etc/app.json", "/w/.env.json", "/host/share/a.csv",
             "/w/httpdata/a.csv" } |->
        CASE p = "/w/data/a.csv" -> DataFile(2048, PeopleColumns, 3)
          [] p = "/w/data/sales.json" -> DataFile(4096, SalesColumns, 1500)
          [] p = "/w/data-private/x.csv" -> DataFile(512, PeopleColumns, 3)
          [] p = "/w/data/one.csv" -> PlainFile(1048576)
          [] p = "/w/data/over1.csv" -> PlainFile(1048577)
          [] p = "/w/data/mid.csv" -> PlainFile(104857601)
          [] p = "/w/data/edge.csv" -> PlainFile(1048576000)
          [] p = "/w/data/big.csv" -> PlainFile(1048576001)
          [] p = "/w/data/locked.csv" -> [PlainFile(64) EXCEPT !.statOk = FALSE]
          [] OTHER -> PlainFile(64)]

InitialDirs ==
    { "/", "/w", "/w/data", "/w/data/dir.csv", "/w/data-private", "/w/out",
      "/w/httpdata", "/tmp", "/etc", "/host", "/host/share" }

InitialFs == [files |-> InitialFiles, dirs |-> InitialDirs]

MaxTablesLoaded == 2

AllowedPathLists == { << "./data", "./" >>, << "/w/data" >>, << "/" >> }

\* the snapshots the validators are exercised under
ValidatorConfigs ==
    [readOnly : BOOLEAN, allowedPaths : AllowedPathLists, allowNetworkPaths : BOOLEAN,
     maxFileSizeMB : {1, 100}, maxTablesLoaded : {MaxTablesLoaded}]

\* the snapshots the server is exercised under
ServerConfigs ==
    [readOnly : BOOLEAN, allowedPaths : { << "./data", "./" >> },
     allowNetworkPaths : {FALSE}, maxFileSizeMB : {100},
     maxTablesLoaded : {MaxTablesLoaded}]

NoResult == [allowed |-> FALSE, reason |-> Undefined, warning |-> Undefined]

\* no response has been sent for the request
NoResponse == [isError |-> FALSE, text |-> Undefined]

NoCall ==
    [op |-> "none", args |-> <<>>, result |-> NoResult, error |-> Undefined,
     trace |-> <<>>, response |-> NoResponse]

InitWith(configs) ==
    /\ config \in configs
    /\ cwd = "/w"
    /\ fs = InitialFs
    /\ tables = <<>>
    /\ engine = {}
    /\ call = NoCall

Init == InitWith(ServerConfigs)

InitValidators == InitWith(ValidatorConfigs)

(***************************************************************************)
(* Direct calls of the validators.                                         *)
(***************************************************************************)
FilePaths ==
    { "./data/a.csv", "data/a.csv", "/w/data/a.csv", "data/../data/a.csv",
      "../w/data/a.csv", "../../etc/passwd", "/etc/app.json", "/w/data/x..y.csv",
      "/w/data-private/x.csv", "data/a.exe", "data/none.csv", "/tmp/t.csv",
      "data/one.csv", "data/over1.csv", "data/mid.csv", "data/edge.csv",
      "data/big.csv", "data/locked.csv", "data/A.CSV", "data/notes.txt",
      "data/dir.csv", "//host/share/a.csv", "httpdata/a.csv", "/w/.env.json",
      "~/.ssh/id.csv", "../evil.exe", ".env.json", "", "/tmp/none.csv",
      "/tmp/none.exe" }

Queries ==
    { "SELECT * FROM sales",
      "DROP TABLE sales",
      "drop table sales",
      "SELECT * FROM t; Delete FROM t",
      "SELECT dropout_rate FROM students",
      "SELECT created_at FROM dropship",
      "SELECT backdrop FROM t WHERE updated = 1",
      "SELECT copy FROM t",
      "COPY sales TO 'out.csv'",
      "copy t to 'x'; insert into t values (1)",
      "SELECT copyright, total FROM customers",
      "SELECT copyright FROM t",
      "SELECT total FROM t",
      "SELECT export_date FROM t",
      "SELECT Write_CSV(x) FROM t",
      "SELECT export_x FROM t; ALTER TABLE t",
      "COPY (SELECT write_x FROM t) TO 'f'",
      "SELECT 'drop' FROM t",
      "SELECT a FROM t -- update",
      "TRUNCATE t",
      "PRAGMA database_list",
      "vacuum",
      "EXECUTE stmt",
      "" }

OutputPaths ==
    { "out/x.csv", "data/x.csv", "data/new/x.csv", "/etc/x.csv", "/tmp/x.csv",
      "/w/data-private/o.csv", "data/../out/x.csv", "/w/data/.env", "/w/data/a.csv/x.csv",
      "out", "/w/database/x.csv", "/tmp/new/x.csv", "/etc/new/x.csv" }

\* a call is made when the previous one has returned
Idle == call.op = "none"

\* the caller has consumed the result of the last call
ReturnToCaller ==
    /\ ~Idle
    /\ call' = NoCall
    /\ UNCHANGED << config, cwd, fs, tables, engine >>

ValidatorCall(op, arg, result) ==
    /\ Idle
    /\ call' = [op |-> op, args |-> << arg >>, result |-> result, error |-> Undefined,
                trace |-> <<>>, response |-> NoResponse]
    /\ UNCHANGED << config, cwd, fs, tables, engine >>

ValidateFilePathCall ==
    \E filePath \in FilePaths :
        ValidatorCall("validateFilePath", filePath,
                      validateFilePath(config, cwd, fs, filePath))

ValidateQueryCall ==
    \E query \in Queries :
        ValidatorCall("validateQuery", query, validateQuery(config, query))

ValidatePathCall ==
    \E outputPath \in OutputPaths :
        ValidatorCall("validatePath", outputPath,
                      validatePath(config, cwd, fs, outputPath))

NextValidators ==
    ValidateFilePathCall \/ ValidateQueryCall \/ ValidatePathCall \/ ReturnToCaller

SpecValidators == InitValidators /\ [][NextValidators]_vars

(***************************************************************************)
(* Repeated calls of the validators: the caller keeps the outcome of one   *)
(* earlier call, and the process state that call saw, in call.earlier,     *)
(* while it goes on calling.                                               *)
(***************************************************************************)
RepeatConfigs ==
    [readOnly : BOOLEAN, allowedPaths : { << "./data", "./" >> },
     allowNetworkPaths : BOOLEAN, maxFileSizeMB : {1},
     maxTablesLoaded : {MaxTablesLoaded}]

NoEarlier == [op |-> "none", args |-> <<>>, result |-> NoResult, state |-> <<>>]

IdleRemembering(earlier) ==
    [op |-> "none", args |-> <<>>, result |-> NoResult, error |-> Undefined,
     trace |-> <<>>, response |-> NoResponse, earlier |-> earlier]

InitRepeated ==
    /\ config \in RepeatConfigs
    /\ cwd = "/w"
    /\ fs = InitialFs
    /\ tables = <<>>
    /\ engine = {}
    /\ call = IdleRemembering(NoEarlier)

\* a validator call that writes the configuration snapshot it read
RememberedCallWritingConfig(op, arg, result) ==
    /\ Idle
    /\ call' = [op |-> op, args |-> << arg >>, result |-> result, error |-> Undefined,
                trace |-> <<>>, response |-> NoResponse, earlier |-> call.earlier]
    /\ config' = [config EXCEPT !.readOnly = FALSE, !.allowNetworkPaths = TRUE]
    /\ UNCHANGED << cwd, fs, tables, engine >>

RememberedCall(op, arg, result) ==
    /\ Idle
    /\ call' = [op |-> op, args |-> << arg >>, result |-> result, error |-> Undefined,
                trace |-> <<>>, response |-> NoResponse, earlier |-> call.earlier]
    /\ UNCHANGED << config, cwd, fs, tables, engine >>

RepeatValidateFilePath ==
    \E filePath \in FilePaths :
        RememberedCall("validateFilePath", filePath,
                       validateFilePath(config, cwd, fs, filePath))

RepeatValidateQuery ==
    \E query \in Queries :
        RememberedCall("validateQuery", query, validateQuery(config, query))

RepeatValidatePath ==
    \E outputPath \in OutputPaths :
        RememberedCall("validatePath", outputPath,
                       validatePath(config, cwd, fs, outputPath))

\* the call returns and the caller keeps its outcome
ReturnRemembering ==
    /\ ~Idle
    /\ call' = IdleRemembering([op |-> call.op, args |-> call.args,
                                result |-> call.result, state |-> State])
    /\ UNCHANGED << config, cwd, fs, tables, engine >>

\* the call returns and the caller keeps what it kept before
ReturnKeeping ==
    /\ ~Idle
    /\ call' = IdleRemembering(call.earlier)
    /\ UNCHANGED << config, cwd, fs, tables, engine >>

NextRepeated ==
    \/ RepeatValidateFilePath
    \/ RepeatValidateQuery
    \/ RepeatValidatePath
    \/ ReturnRemembering
    \/ ReturnKeeping

SpecRepeated == InitRepeated /\ [][NextRepeated]_vars

(***************************************************************************)
(* The store under overlapping requests.  The handlers are async: a        *)
(* request runs up to its next await, and other requests run while it      *)
(* waits for the parser or the engine.  call[t] is the request in flight   *)
(* of task t, with pc the await it stands at.                              *)
(***************************************************************************)
MaxTasks == 2

Tasks == 1..MaxTasks

StoreConfigs == { c \in ServerConfigs : c.readOnly }

StoreLoadPaths ==
    { "data/a.csv", "data/sales.json", "data-private/x.csv", "data/bad.csv",
      "../../etc/passwd" }

StoreDropNames == { "a", "sales", "missing" }

NoTask ==
    [op |-> "none", args |-> <<>>, pc |-> "idle", name |-> "", batches |-> 0,
     error |-> Undefined, returned |-> Undefined]

InitStore ==
    /\ config \in StoreConfigs
    /\ cwd = "/w"
    /\ fs = InitialFs
    /\ tables = <<>>
    /\ engine = {}
    /\ call = [t \in Tasks |-> NoTask]

\* tables.set(safeName, metadata): a Map keeps the position of a key it has
RegistrySet(registry, metadata) ==
    IF HasTable(registry, metadata.name)
    THEN [registry EXCEPT ![TableIndex(registry, metadata.name)] = metadata]
    ELSE Append(registry, metadata)

\* tables.clear() in the place of tables.delete(tableName)
RegistryCleared(registry, name) == <<>>

\* tables.delete(tableName)
RegistryDelete(registry, name) ==
    LET Others(entry) == entry.name # name
    IN  SelectSeq(registry, Others)

\* loadData from its entry to `await parser.parse(content)`: the error it
\* throws on the way, Undefined when it reaches the await
loadDataUntilParse(st, absolutePath) ==
    IF ~validateFilePath(st.config, st.cwd, st.fs, absolutePath).allowed
    THEN "Security: " \o validateFilePath(st.config, st.cwd, st.fs, absolutePath).reason
    ELSE IF Len(st.tables) >= st.config.maxTablesLoaded
    THEN "Maximum table limit reached (" \o IntToStr(st.config.maxTablesLoaded)
         \o "). Use list_tables to see loaded tables."
    ELSE IF getParser(toLowerCase(extname(absolutePath))) = ""
    THEN "Unsupported file format: " \o toLowerCase(extname(absolutePath))
    ELSE IF absolutePath \notin DOMAIN st.fs.files
    THEN "EISDIR: illegal operation on a directory, read"
    ELSE Undefined

TaskStep(t, task) ==
    call' = [call EXCEPT ![t] = task]

Failed(task, message) == [task EXCEPT !.pc = "done", !.error = message]

LoadDataBegin ==
    \E t \in Tasks, filePath \in StoreLoadPaths :
        /\ call[t].pc = "idle"
        /\ \E error \in {loadDataUntilParse(State, resolve(cwd, filePath))} :
            TaskStep(t, [op |-> "load_data", args |-> << filePath >>,
                         pc |-> IF error = Undefined THEN "parse" ELSE "done",
                         name |-> "", batches |-> 0, error |-> error,
                         returned |-> Undefined])
        /\ UNCHANGED << config, cwd, fs, tables, engine >>

\* the parser has answered: loadData names the table and calls loadTable,
\* which checks the limit and runs up to `await run(DROP TABLE IF EXISTS)`
LoadDataParsed ==
    \E t \in Tasks :
        /\ call[t].pc = "parse"
        /\ \E absolutePath \in {resolve(cwd, call[t].args[1])} :
            \E file \in {fs.files[absolutePath]} :
                TaskStep(t,
                    IF ~file.parseOk THEN Failed(call[t], "Parse error")
                    ELSE IF Len(tables) >= config.maxTablesLoaded
                    THEN Failed(call[t], "Maximum tables ("
                                         \o IntToStr(config.maxTablesLoaded)
                                         \o ") already loaded. Drop a table first.")
                    ELSE [call[t] EXCEPT
                            !.pc = "drop",
                            !.name = sanitizeName(sanitizeName(
                                        basename(absolutePath,
                                                 toLowerCase(extname(absolutePath))))),
                            !.batches = (file.rowCount + BATCH_SIZE - 1) \div BATCH_SIZE])
        /\ UNCHANGED << config, cwd, fs, tables, engine >>

\* the metadata loadTable registers for the task's file
TaskMetadata(task) ==
    [name |-> task.name, filePath |-> resolve(cwd, task.args[1]),
     rowCount |-> fs.files[resolve(cwd, task.args[1])].rowCount,
     columns |-> fs.files[resolve(cwd, task.args[1])].columns]

\* DROP TABLE IF EXISTS has run; loadTable issues CREATE TABLE
LoadTableDropped ==
    \E t \in Tasks :
        /\ call[t].pc = "drop"
        /\ engine' = engine \ {call[t].name}
        /\ TaskStep(t, [call[t] EXCEPT !.pc = "create"])
        /\ UNCHANGED << config, cwd, fs, tables >>

\* CREATE TABLE has run, or failed on a table that exists; with no rows to
\* insert loadTable goes on to register the table
LoadTableCreated ==
    \E t \in Tasks :
        /\ call[t].pc = "create"
        /\ IF call[t].name \in engine
           THEN /\ TaskStep(t, Failed(call[t], EngineError))
                /\ UNCHANGED << engine, tables >>
           ELSE /\ engine' = engine \cup {call[t].name}
                /\ IF call[t].batches = 0
                   THEN /\ tables' = RegistrySet(tables, TaskMetadata(call[t]))
                        /\ TaskStep(t, [call[t] EXCEPT !.pc = "done"])
                   ELSE /\ TaskStep(t, [call[t] EXCEPT !.pc = "insert"])
                        /\ UNCHANGED tables
        /\ UNCHANGED << config, cwd, fs >>

\* one INSERT has run, or failed on a table that is gone; after the last
\* batch loadTable registers the table
LoadTableInserted ==
    \E t \in Tasks :
        /\ call[t].pc = "insert"
        /\ IF call[t].name \notin engine
           THEN /\ TaskStep(t, Failed(call[t], EngineError))
                /\ UNCHANGED tables
           ELSE IF call[t].batches = 1
           THEN /\ tables' = RegistrySet(tables, TaskMetadata(call[t]))
                /\ TaskStep(t, [call[t] EXCEPT !.pc = "done", !.batches = 0])
           ELSE /\ TaskStep(t, [call[t] EXCEPT !.batches = @ - 1])
                /\ UNCHANGED tables
        /\ UNCHANGED << config, cwd, fs, engine >>

\* store.dropTable up to `await run(DROP TABLE IF EXISTS)`
DropTableBegin ==
    \E t \in Tasks, tableName \in StoreDropNames :
        /\ call[t].pc = "idle"
        /\ TaskStep(t, [op |-> "dropTable", args |-> << tableName >>,
                        pc |-> IF HasTable(tables, tableName) THEN "dropTable" ELSE "done",
                        name |-> tableName, batches |-> 0, error |-> Undefined,
                        returned |-> IF HasTable(tables, tableName) THEN Undefined
                                     ELSE "false"])
        /\ UNCHANGED << config, cwd, fs, tables, engine >>

\* the DROP has run; dropTable deletes the registry entry
DropTableDropped ==
    \E t \in Tasks :
        /\ call[t].pc = "dropTable"
        /\ engine' = engine \ {call[t].name}
        /\ tables' = RegistryDelete(tables, call[t].name)
        /\ TaskStep(t, [call[t] EXCEPT !.pc = "done", !.returned = "true"])
        /\ UNCHANGED << config, cwd, fs >>

\* the request is answered
TaskReturn ==
    \E t \in Tasks :
        /\ call[t].pc = "done"
        /\ TaskStep(t, NoTask)
        /\ UNCHANGED << config, cwd, fs, tables, engine >>

NextStore ==
    \/ LoadDataBegin
    \/ LoadDataParsed
    \/ LoadTableDropped
    \/ LoadTableCreated
    \/ LoadTableInserted
    \/ DropTableBegin
    \/ DropTableDropped
    \/ TaskReturn

SpecStore == InitStore /\ [][NextStore]_vars

(***************************************************************************)
(* store.executeQuery: the output limit.  Rows are counted, not kept: a    *)
(* QueryResult is [rows, rowCount, truncated] with rows the length of the  *)
(* rows array.  The registry's table t has tables[1].rowCount rows.        *)
(***************************************************************************)
\* /\bLIMIT\s+\d+/i.test(query)
HasLimitClause(query) ==
    \E i \in 1..Len(query) :
        /\ LitAt(toUpperCase(query), i, "LIMIT")
        /\ (i = 1 \/ ~IsWordChar(CharAt(query, i - 1)))
        /\ RunEnd(query, i + 5, "\\s") >= i + 5
        /\ RunEnd(query, i + 5, "\\s") < Len(query)
        /\ IsDigit(CharAt(query, RunEnd(query, i + 5, "\\s") + 1))

\* finalQuery.replace(/;\s*$/, "") on a trimmed query
StripSemicolon(query) ==
    IF EndsWith(query, ";") THEN SubSeq(query, 1, Len(query) - 1) ELSE query

\* lines 298-304: the query the engine is given
FinalQuery(query, maxRows) ==
    IF HasLimitClause(trim(query)) THEN trim(query)
    ELSE StripSemicolon(trim(query)) \o " LIMIT " \o IntToStr(maxRows + 1)

RECURSIVE StrToNat(_)
StrToNat(digits) ==
    IF digits = "" THEN 0
    ELSE StrToNat(SubSeq(digits, 1, Len(digits) - 1)) * 10
         + (CHOOSE d \in 0..9 : CharAt(Digits, d + 1) = CharAt(digits, Len(digits)))

\* where the number of the statement's closing LIMIT clause starts, 0 when
\* the statement does not end with one
OuterLimitAt(sql) ==
    LET stmt == StripSemicolon(trim(sql))
        at == { i \in 2..Len(stmt) :
                  /\ AllDigits(stmt, i, Len(stmt))
                  /\ IsSpace(CharAt(stmt, i - 1))
                  /\ \E k \in 5..(i - 2) :
                        /\ \A j \in (k + 1)..(i - 1) : IsSpace(CharAt(stmt, j))
                        /\ toUpperCase(SubSeq(stmt, k - 4, k)) = "LIMIT"
                        /\ (k = 5 \/ ~IsWordChar(CharAt(stmt, k - 5))) }
    IN  IF at = {} THEN 0 ELSE Least(at)

\* the engine: every query of ExecQueries selects each row of t once, cut
\* by the statement's closing LIMIT when it has one
EngineRowCount(sql, tableRows) ==
    LET stmt == StripSemicolon(trim(sql))
    IN  IF OuterLimitAt(sql) = 0 THEN tableRows
        ELSE IF StrToNat(SubSeq(stmt, OuterLimitAt(sql), Len(stmt))) < tableRows
        THEN StrToNat(SubSeq(stmt, OuterLimitAt(sql), Len(stmt)))
        ELSE tableRows

QueryResult(rows, rowCount, truncated) ==
    [rows |-> rows, rowCount |-> rowCount, truncated |-> truncated]

\* executeQuery that returns every row the engine returned
executeQueryUnsliced(maxRows, allRows) ==
    QueryResult(allRows, allRows, allRows > maxRows)

\* lines 324-361: the QueryResult made of the allRows rows the engine returned
executeQuery(maxRows, allRows) ==
    IF allRows = 0 THEN QueryResult(0, 0, FALSE)
    ELSE IF allRows > maxRows THEN QueryResult(maxRows, allRows, TRUE)
    ELSE QueryResult(allRows, allRows, FALSE)

MaxTableRows == 6

ExecConfigs ==
    [readOnly : {TRUE}, allowedPaths : { << "./data", "./" >> },
     allowNetworkPaths : {FALSE}, maxFileSizeMB : {100},
     maxTablesLoaded : {MaxTablesLoaded}, maxRowsOutput : {2, 3}]

ExecQueries ==
    { "SELECT * FROM t", "SELECT * FROM t;", "  select * from t  ",
      "SELECT * FROM t LIMIT 2", "SELECT * FROM t LIMIT 5", "select * from t limit  1;",
      "SELECT * FROM t, (SELECT 1 LIMIT 1) s", "SELECT 'LIMIT 9' AS c FROM t",
      "SELECT * FROM t ORDER BY id LIMIT 3", "SELECT * FROM t LIMIT 0" }

InitExec ==
    /\ config \in ExecConfigs
    /\ cwd = "/w"
    /\ fs = InitialFs
    /\ \E n \in 0..MaxTableRows :
          tables = << [name |-> "t", filePath |-> "/w/data/t.csv", rowCount |-> n,
                       columns |-> PeopleColumns] >>
    /\ engine = {"t"}
    /\ call = NoCall

NoQueryResult == QueryResult(0, 0, FALSE)

ExecuteQueryCall ==
    \E query \in ExecQueries, failAt \in {0, 1, TimedOut} :
        /\ Idle
        /\ \E finalQuery \in {FinalQuery(query, config.maxRowsOutput)} :
           \E allRows \in {EngineRowCount(finalQuery, tables[1].rowCount)} :
              call' = [op |-> "executeQuery", args |-> << query >>,
                       result |-> IF failAt = 0
                                  THEN executeQuery(config.maxRowsOutput, allRows)
                                  ELSE NoQueryResult,
                       error |-> IF failAt = 0 THEN Undefined
                                 ELSE IF failAt = 1 THEN EngineError
                                 ELSE QueryTimedOut,
                       trace |-> << Event("run", finalQuery, TRUE) >>,
                       response |-> NoResponse,
                       allRows |-> IF failAt = 0 THEN allRows ELSE 0]
        /\ UNCHANGED << config, cwd, fs, tables, engine >>

NextExec ==
    \/ ExecuteQueryCall
    \/ ReturnToCaller

SpecExec == InitExec /\ [][NextExec]_vars

(***************************************************************************)
(* store.executeQuery: the race of the engine against the timer.  Each     *)
(* call arms a timer that is never cleared and starts an engine query;     *)
(* call.timers and call.pending are the calls, by number, whose timer is   *)
(* still armed and whose engine query is still running.                    *)
(***************************************************************************)
MaxQueryCalls == 3

RaceQueries == { "SELECT * FROM t", "SELECT * FROM t LIMIT 2" }

NoRace ==
    [op |-> "none", args |-> <<>>, pc |-> "idle", id |-> 0,
     result |-> NoQueryResult, error |-> Undefined, timers |-> {}, pending |-> {}]

InitRace ==
    /\ config \in ExecConfigs
    /\ cwd = "/w"
    /\ fs = InitialFs
    /\ \E n \in 0..MaxTableRows :
          tables = << [name |-> "t", filePath |-> "/w/data/t.csv", rowCount |-> n,
                       columns |-> PeopleColumns] >>
    /\ engine = {"t"}
    /\ call = NoRace

\* lines 292-322: the timer is armed, the query handed to the engine, and
\* the call awaits Promise.race
ExecuteQueryStart ==
    \E query \in RaceQueries :
        /\ call.pc = "idle"
        /\ call.id < MaxQueryCalls
        /\ call' = [call EXCEPT !.op = "executeQuery", !.args = << query >>,
                                !.pc = "racing", !.id = @ + 1,
                                !.result = NoQueryResult, !.error = Undefined,
                                !.timers = @ \cup {call.id + 1},
                                !.pending = @ \cup {call.id + 1}]
        /\ UNCHANGED << config, cwd, fs, tables, engine >>

\* the engine finishes the query of call id, with rows or with an error; the
\* call settles with it when it is still awaiting the race
EngineAnswers ==
    \E id \in call.pending, failed \in BOOLEAN :
        /\ call' =
              IF call.pc = "racing" /\ call.id = id
              THEN [call EXCEPT
                      !.pc = "settled",
                      !.pending = @ \ {id},
                      !.error = IF failed THEN EngineError ELSE Undefined,
                      !.result =
                          IF failed THEN NoQueryResult
                          ELSE executeQuery(config.maxRowsOutput,
                                   EngineRowCount(FinalQuery(call.args[1],
                                                             config.maxRowsOutput),
                                                  tables[1].rowCount))]
              ELSE [call EXCEPT !.pending = @ \ {id}]
        /\ UNCHANGED << config, cwd, fs, tables, engine >>

\* a timer that rejects the call in flight, whichever call armed it
TimerFiresForAnyCall(id) ==
    /\ id \in call.timers
    /\ call' = IF call.pc \in {"racing", "settled"}
               THEN [call EXCEPT !.pc = "settled", !.timers = @ \ {id},
                                 !.result = NoQueryResult, !.error = QueryTimedOut]
               ELSE [call EXCEPT !.timers = @ \ {id}]
    /\ UNCHANGED << config, cwd, fs, tables, engine >>

\* the timer of call id fires and rejects that call's timeoutPromise: the
\* call is rejected when it is still awaiting the race
TimerFiresFor(id) ==
    /\ id \in call.timers
    /\ call' = IF call.pc = "racing" /\ call.id = id
               THEN [call EXCEPT !.pc = "settled", !.timers = @ \ {id},
                                 !.result = NoQueryResult, !.error = QueryTimedOut]
               ELSE [call EXCEPT !.timers = @ \ {id}]
    /\ UNCHANGED << config, cwd, fs, tables, engine >>

TimerFires == \E id \in 1..MaxQueryCalls : TimerFiresFor(id)

\* the caller has the outcome of the call
ExecuteQueryReturn ==
    /\ call.pc = "settled"
    /\ call' = [call EXCEPT !.op = "none", !.args = <<>>, !.pc = "idle",
                            !.result = NoQueryResult, !.error = Undefined]
    /\ UNCHANGED << config, cwd, fs, tables, engine >>

NextRace ==
    \/ ExecuteQueryStart
    \/ EngineAnswers
    \/ TimerFires
    \/ ExecuteQueryReturn

SpecRace == InitRace /\ [][NextRace]_vars

\* setTimeout: an armed timer fires
SpecRaceFair ==
    SpecRace /\ \A id \in 1..MaxQueryCalls : WF_vars(TimerFiresFor(id))

(***************************************************************************)
(* store.initialize under overlapping calls.  engine holds the store's     *)
(* fields (initialized, instance, connection), the database instances and  *)
(* connections created so far, and the tables of each instance; call[t] is *)
(* the initialize call of task t, with pc the await it stands at.  The     *)
(* engine is taken to work: create, connect and SET do not fail.           *)
(***************************************************************************)
MaxInitCalls == 3

InitTasks == 1..MaxInitCalls

NoInitialize == [op |-> "none", pc |-> "idle", instance |-> 0]

InitInitialize ==
    /\ config \in StoreConfigs
    /\ cwd = "/w"
    /\ fs = InitialFs
    /\ tables = <<>>
    /\ engine = [initialized |-> FALSE, instance |-> 0, connection |-> 0,
                 created |-> 0, connected |-> 0,
                 db |-> [i \in InitTasks |-> {}]]
    /\ call = [t \in InitTasks |-> NoInitialize]

\* lines 64-71: return when initialized, else start DuckDBInstance.create
InitializeBegin ==
    \E t \in InitTasks :
        /\ call[t].pc = "idle"
        /\ call' = [call EXCEPT ![t] =
                      [op |-> "initialize",
                       pc |-> IF engine.initialized THEN "done" ELSE "create",
                       instance |-> 0]]
        /\ UNCHANGED << config, cwd, fs, tables, engine >>

\* line 71-75: the instance is there and assigned; connect() is started on it
InstanceCreated ==
    \E t \in InitTasks :
        /\ call[t].pc = "create"
        /\ engine' = [engine EXCEPT !.created = @ + 1, !.instance = engine.created + 1]
        /\ call' = [call EXCEPT ![t] = [@ EXCEPT !.pc = "connect",
                                                 !.instance = engine.created + 1]]
        /\ UNCHANGED << config, cwd, fs, tables >>

\* lines 75-80: the connection is there and assigned; SET memory_limit is
\* run on it
Connected ==
    \E t \in InitTasks :
        /\ call[t].pc = "connect"
        /\ engine' = [engine EXCEPT !.connected = @ + 1,
                                    !.connection = call[t].instance]
        /\ call' = [call EXCEPT ![t] = [@ EXCEPT !.pc = "set"]]
        /\ UNCHANGED << config, cwd, fs, tables >>

\* lines 82-85: SET has run and the store is marked initialized
MemoryLimitSet ==
    \E t \in InitTasks :
        /\ call[t].pc = "set"
        /\ engine' = [engine EXCEPT !.initialized = TRUE]
        /\ call' = [call EXCEPT ![t] = [@ EXCEPT !.pc = "done"]]
        /\ UNCHANGED << config, cwd, fs, tables >>

InitializeReturn ==
    \E t \in InitTasks :
        /\ call[t].pc = "done"
        /\ call' = [call EXCEPT ![t] = NoInitialize]
        /\ UNCHANGED << config, cwd, fs, tables, engine >>

\* a loadTable on the initialized store, start to end: the table is created
\* through the store's connection and registered
InitializedStoreLoads ==
    \E name \in {"a", "b"} :
        /\ engine.initialized /\ engine.connection # 0
        /\ Len(tables) < config.maxTablesLoaded
        /\ engine' = [engine EXCEPT !.db[engine.connection] = @ \cup {name}]
        /\ tables' = RegistrySet(tables, [name |-> name, filePath |-> "/w/data/a.csv",
                                          rowCount |-> 3, columns |-> PeopleColumns])
        /\ UNCHANGED << config, cwd, fs, call >>

NextInitialize ==
    \/ InitializeBegin
    \/ InstanceCreated
    \/ Connected
    \/ MemoryLimitSet
    \/ InitializeReturn
    \/ InitializedStoreLoads

SpecInitialize == InitInitialize /\ [][NextInitialize]_vars

(***************************************************************************)
(* config/loader: loadConfig, getConfig, resetConfig.  config is the       *)
(* module's cachedConfig, NullConfig until a load; a snapshot is kept flat *)
(* (security and limits fields side by side).  fs.configs gives what       *)
(* reading and parsing a configuration file yields: whether readFileSync   *)
(* returns, whether JSON.parse returns, and the parsed object.  Values of  *)
(* the wrong type are left out: a raw object holds booleans, numbers and   *)
(* string arrays where the schema asks for them.                           *)
(***************************************************************************)
NullConfig == [null |-> TRUE]

IsNull(cached) == "null" \in DOMAIN cached

CONFIG_FILENAMES == << "mini-mcp.config.json", ".mini-mcp.json", "mini-mcp.json" >>

\* ConfigSchema.parse({}): the defaults of the schemas
DefaultConfig ==
    [readOnly |-> TRUE, allowedPaths |-> << "./data", "./" >>,
     allowNetworkPaths |-> FALSE, maxFileSizeMB |-> 100, maxTablesLoaded |-> 10,
     maxRowsOutput |-> 1000, queryTimeoutMs |-> 30000]

\* the .min().max() of the schemas' numbers
NumberRanges ==
    [maxFileSizeMB |-> [min |-> 1, max |-> 1000],
     maxTablesLoaded |-> [min |-> 1, max |-> 100],
     maxRowsOutput |-> [min |-> 1, max |-> 100000],
     queryTimeoutMs |-> [min |-> 1000, max |-> 300000]]

\* a schema whose numbers have no .max()
ConfigSchemaParseUnbounded(raw) ==
    [ok |-> TRUE,
     value |-> [f \in DOMAIN DefaultConfig |->
                  IF f \in DOMAIN raw THEN raw[f] ELSE DefaultConfig[f]]]

\* ConfigSchema.parse(raw): ok is FALSE when it throws
ConfigSchemaParse(raw) ==
    [ok |-> \A f \in DOMAIN raw \cap DOMAIN NumberRanges :
                raw[f] >= NumberRanges[f].min /\ raw[f] <= NumberRanges[f].max,
     value |-> [f \in DOMAIN DefaultConfig |->
                  IF f \in DOMAIN raw THEN raw[f] ELSE DefaultConfig[f]]]

ConfigFile(readable, json, raw) == [readable |-> readable, json |-> json, raw |-> raw]

\* existsSync(path) in the loader
ConfigExists(files, path) ==
    path \in DOMAIN files.configs \/ existsSync(files, path)

\* readFileSync and JSON.parse of a path that exists: a directory cannot be
\* read, a data file is not JSON
ReadConfigFile(files, path) ==
    IF path \in DOMAIN files.configs THEN files.configs[path]
    ELSE IF path \in files.dirs THEN ConfigFile(FALSE, FALSE, [x \in {} |-> 0])
    ELSE ConfigFile(TRUE, FALSE, [x \in {} |-> 0])

\* findConfigFile(startDir): "" is null
RECURSIVE findConfigFile(_, _)
findConfigFile(files, currentDir) ==
    IF currentDir = "/" THEN ""
    ELSE LET found == { i \in 1..Len(CONFIG_FILENAMES) :
                          ConfigExists(files, resolve(currentDir, CONFIG_FILENAMES[i])) }
         IN  IF found # {} THEN resolve(currentDir, CONFIG_FILENAMES[Least(found)])
             ELSE findConfigFile(files, resolve(currentDir, ".."))

\* what loadConfig caches when nothing is cached; configPath "" is absent
ReadConfig(files, dir, resolvedPath) ==
    IF resolvedPath # "" /\ ConfigExists(files, resolvedPath)
    THEN IF /\ ReadConfigFile(files, resolvedPath).readable
            /\ ReadConfigFile(files, resolvedPath).json
            /\ ConfigSchemaParse(ReadConfigFile(files, resolvedPath).raw).ok
         THEN ConfigSchemaParse(ReadConfigFile(files, resolvedPath).raw).value
         ELSE DefaultConfig
    ELSE DefaultConfig

\* a loadConfig that reads the file again when it is given a path
loadConfigReadingGivenPath(cached, files, dir, configPath) ==
    IF ~IsNull(cached) /\ configPath = "" THEN [config |-> cached, reads |-> 0]
    ELSE [config |-> ReadConfig(files, dir,
                        IF configPath # "" THEN configPath
                        ELSE findConfigFile(files, dir)),
          reads |-> 1]

\* loadConfig(configPath): the snapshot returned and cached, and the number
\* of loads it made
loadConfig(cached, files, dir, configPath) ==
    IF ~IsNull(cached) THEN [config |-> cached, reads |-> 0]
    ELSE [config |-> ReadConfig(files, dir,
                        IF configPath # "" THEN configPath
                        ELSE findConfigFile(files, dir)),
          reads |-> 1]

getConfig(cached, files, dir) ==
    IF IsNull(cached) THEN loadConfig(cached, files, dir, "")
    ELSE [config |-> cached, reads |-> 0]

\* the parsed objects of the configuration files
RawConfigs ==
    { [readOnly |-> FALSE, maxFileSizeMB |-> 1000],
      [maxFileSizeMB |-> 1001],
      [maxRowsOutput |-> 100001],
      [queryTimeoutMs |-> 300001],
      [readOnly |-> FALSE, maxRowsOutput |-> 5, maxFileSizeMB |-> 0],
      [allowNetworkPaths |-> TRUE, allowedPaths |-> << "/w/data" >>] }

PrimaryConfigFiles ==
    { ConfigFile(TRUE, TRUE, raw) : raw \in RawConfigs }
        \cup { ConfigFile(FALSE, FALSE, [x \in {} |-> 0]),
               ConfigFile(TRUE, FALSE, [x \in {} |-> 0]) }

AltConfigFiles ==
    { ConfigFile(TRUE, TRUE, [readOnly |-> FALSE, maxTablesLoaded |-> 3]),
      ConfigFile(TRUE, TRUE, [maxTablesLoaded |-> 101]) }

\* the configuration files of a run: one in the working directory or none,
\* and one to be named in loadConfig(path)
ConfigFileSets ==
    { [p \in {"/w/alt.json"} |-> alt] : alt \in AltConfigFiles }
        \cup { [p \in {"/w/alt.json", "/w/.mini-mcp.json"} |->
                  IF p = "/w/alt.json" THEN alt ELSE primary] :
                alt \in AltConfigFiles, primary \in PrimaryConfigFiles }

ConfigPaths == { "", "/w/alt.json", "/w/none.json", "/w/data" }

NoConfigCall ==
    [op |-> "none", args |-> <<>>, result |-> NoResult, error |-> Undefined,
     trace |-> <<>>, response |-> NoResponse, snapshot |-> NullConfig, reads |-> 0]

InitConfig ==
    /\ config = NullConfig
    /\ cwd = "/w"
    /\ \E configs \in ConfigFileSets :
          fs = [files |-> InitialFiles, dirs |-> InitialDirs, configs |-> configs]
    /\ tables = <<>>
    /\ engine = {}
    /\ call = NoConfigCall

\* a call that reads the configuration through loaded, the outcome of
\* loadConfig or getConfig; call.reads counts the loads since the last reset
ConfigCall(op, args, loaded, result) ==
    /\ Idle
    /\ config' = loaded.config
    /\ call' = [op |-> op, args |-> args, result |-> result, error |-> Undefined,
                trace |-> <<>>, response |-> NoResponse,
                snapshot |-> loaded.config, reads |-> call.reads + loaded.reads]
    /\ UNCHANGED << cwd, fs, tables, engine >>

LoadConfigCall ==
    \E configPath \in ConfigPaths :
        \E loaded \in {loadConfig(config, fs, cwd, configPath)} :
            ConfigCall("loadConfig", << configPath >>, loaded, NoResult)

GetConfigCall ==
    \E loaded \in {getConfig(config, fs, cwd)} :
        ConfigCall("getConfig", <<>>, loaded, NoResult)

ResetConfigCall ==
    /\ Idle
    /\ config' = NullConfig
    /\ call' = [NoConfigCall EXCEPT !.op = "resetConfig"]
    /\ UNCHANGED << cwd, fs, tables, engine >>

\* the validators read the configuration with getConfig()
ConfigValidateQueryCall ==
    \E query \in { "SELECT write_csv(1)", "DROP TABLE a" } :
        \E loaded \in {getConfig(config, fs, cwd)} :
            ConfigCall("validateQuery", << query >>, loaded,
                       validateQuery(loaded.config, query))

ConfigValidateFilePathCall ==
    \E filePath \in { "data/a.csv", "/tmp/t.csv", "data/edge.csv" } :
        \E loaded \in {getConfig(config, fs, cwd)} :
            ConfigCall("validateFilePath", << filePath >>, loaded,
                       validateFilePath(loaded.config, cwd, fs, filePath))

ConfigReturn ==
    /\ ~Idle
    /\ call' = [NoConfigCall EXCEPT !.reads = call.reads]
    /\ UNCHANGED << config, cwd, fs, tables, engine >>

NextConfig ==
    \/ LoadConfigCall
    \/ GetConfigCall
    \/ ResetConfigCall
    \/ ConfigValidateQueryCall
    \/ ConfigValidateFilePathCall
    \/ ConfigReturn

SpecConfig == InitConfig /\ [][NextConfig]_vars

(***************************************************************************)
(* The parser registry under concurrent load_data requests.  The registry  *)
(* holds one CSVParser for the whole process; canParse stores the path it  *)
(* is asked about in the instance, and parse reads it back in              *)
(* detectDelimiter.  call[CSVParserIndex] is that instance, call[t] for t  *)
(* in Tasks the request in flight of task t.  A request runs without       *)
(* interruption from its entry into parse, up to the first await.          *)
(***************************************************************************)
\* parsers[0] is the CSVParser
CSVParserIndex == 0

Delimiters == << ",", ";", "\t", "|" >>

\* content.split("\n")[0]
RECURSIVE FirstLineFrom(_, _)
FirstLineFrom(content, i) ==
    IF i > Len(content) \/ CharAt(content, i) = "\n" THEN SubSeq(content, 1, i - 1)
    ELSE FirstLineFrom(content, i + 1)

FirstLine(content) == FirstLineFrom(content, 1)

\* (firstLine.match(new RegExp(`\\${d}`, "g")) || []).length
MatchCount(firstLine, d) ==
    Cardinality({ i \in 1..Len(firstLine) : CharAt(firstLine, i) = d })

\* counts.sort((a, b) => b.count - a.count)[0]: the sort is stable, so of
\* the delimiters with the highest count the first of the list comes first
HighestCount(firstLine) ==
    CHOOSE k \in 1..Len(Delimiters) :
        /\ \A j \in 1..Len(Delimiters) :
              MatchCount(firstLine, Delimiters[j]) <= MatchCount(firstLine, Delimiters[k])
        /\ \A j \in 1..(k - 1) :
              MatchCount(firstLine, Delimiters[j]) < MatchCount(firstLine, Delimiters[k])

\* CSVParser.detectDelimiter with this.filePath the path of the instance
detectDelimiter(filePath, content) ==
    IF EndsWith(toLowerCase(filePath), ".tsv") THEN "\t"
    ELSE IF MatchCount(FirstLine(content), Delimiters[HighestCount(FirstLine(content))]) > 0
    THEN Delimiters[HighestCount(FirstLine(content))]
    ELSE ","

\* canParse that answers without storing the path
canParseKeepingPath(previous, filePath) == previous

\* CSVParser.canParse: this.filePath after the call
canParse(previous, filePath) == filePath

ParseFiles ==
    [p \in { "/w/data/t.tsv", "/w/data/mixed.tsv", "/w/data/semi.csv" } |->
        DataFile(256, PeopleColumns, 2)] @@ InitialFiles

\* what readFileSync returns for the files the requests load
ParseContents ==
    [p \in DOMAIN ParseFiles |->
        CASE p = "/w/data/a.csv" -> "id,name\n1,Ann\n2,Bob\n3,Cy"
          [] p = "/w/data/semi.csv" -> "id;name\n1;Ann\n2;Bob"
          [] p = "/w/data/t.tsv" -> "id\tname\n1\tAnn\n2\tBob"
          [] p = "/w/data/mixed.tsv" -> "id\tlast,first,middle\n1\tLee,Ann,May"
          [] p = "/w/data/sales.json" -> "[{\"region\":\"N\",\"amount\":1.5}]"
          [] OTHER -> ""]

ParseLoadPaths ==
    { "data/a.csv", "data/semi.csv", "data/t.tsv", "data/mixed.tsv",
      "data/sales.json", "data/notes.txt" }

InitParse ==
    /\ config \in StoreConfigs
    /\ cwd = "/w"
    /\ fs = [files |-> ParseFiles, dirs |-> InitialDirs, contents |-> ParseContents]
    /\ tables = <<>>
    /\ engine = {}
    /\ call = [t \in {CSVParserIndex} \cup Tasks |->
                 IF t = CSVParserIndex THEN [filePath |-> ""] ELSE NoTask]

\* loadData gets as far as getParser(ext)
ReachesGetParser(st, absolutePath) ==
    /\ validateFilePath(st.config, st.cwd, st.fs, absolutePath).allowed
    /\ Len(st.tables) < st.config.maxTablesLoaded

\* loadData from its entry to the await on parser.parse(content): getParser
\* asks the CSVParser first, which stores ext; parse runs up to its first
\* await, and so through detectDelimiter, before loadData yields
LoadDataToParse ==
    \E t \in Tasks, filePath \in ParseLoadPaths :
        /\ call[t].pc = "idle"
        /\ \E absolutePath \in {resolve(cwd, filePath)} :
           \E ext \in {toLowerCase(extname(resolve(cwd, filePath)))} :
           \E error \in {loadDataUntilParse(State, absolutePath)} :
           \E parser \in {IF ReachesGetParser(State, absolutePath)
                          THEN [filePath |-> canParse(call[CSVParserIndex].filePath, ext)]
                          ELSE call[CSVParserIndex]} :
              call' = [call EXCEPT
                  ![CSVParserIndex] = parser,
                  ![t] = [op |-> "load_data", args |-> << filePath >>,
                          pc |-> IF error = Undefined THEN "parse" ELSE "done",
                          name |-> "", batches |-> 0, error |-> error,
                          returned |-> Undefined,
                          context |-> IF error = Undefined /\ getParser(ext) = "CSVParser"
                                      THEN parser.filePath ELSE Undefined,
                          delimiter |-> IF error = Undefined /\ getParser(ext) = "CSVParser"
                                        THEN detectDelimiter(parser.filePath,
                                                             fs.contents[absolutePath])
                                        ELSE Undefined]]
        /\ UNCHANGED << config, cwd, fs, tables, engine >>

NextParse ==
    \/ LoadDataToParse
    \/ LoadDataParsed
    \/ LoadTableDropped
    \/ LoadTableCreated
    \/ LoadTableInserted
    \/ TaskReturn

SpecParse == InitParse /\ [][NextParse]_vars

(***************************************************************************)
(* The server: one action per tool of the CallTool handler.                *)
(***************************************************************************)
\* engine calls are numbered 1..MaxEngineCalls; 0 is "none throws"
MaxEngineCalls == 4

FailAts == 0..MaxEngineCalls

ToolQueries ==
    { "SELECT * FROM a", "DROP TABLE a", "SELECT export_x FROM a", "show all",
      "count by name", "top 5 by id", "average of amount by region",
      "where name contains drop", "max of drop", "delete everything" }

ToolTableNames == { "", "a", "a; DROP TABLE a" }

ToolSources ==
    { "a", "missing", "SELECT * FROM a", "SELECT write_x FROM a",
      "WITH t AS (SELECT 1) DELETE FROM a" }

ToolFormats == { "csv", "xml" }

ToolOutputPaths ==
    { "", "out/x.csv", "/tmp/x.csv", "data/new/x.csv", "data/../out/x.csv", "out" }

ToolColumns == { "", "id", "nope" }

ToolLoadPaths ==
    { "data/a.csv", "data/sales.json", "data/bad.csv", "data/notes.txt",
      "data/../data/a.csv", "../../etc/passwd", "data/none.csv", "data/dir.csv",
      "/tmp/t.csv", "data/big.csv" }

ExportBytes == 128

\* a handler whose errors leave it uncaught: the request gets no response
RespondUncaught(error) ==
    IF error = Undefined THEN [isError |-> FALSE, text |-> "<result>"]
    ELSE NoResponse

\* the handler's try/catch: the tool's text, or "Error: <message>" with isError
Respond(error) ==
    IF error = Undefined THEN [isError |-> FALSE, text |-> "<result>"]
    ELSE [isError |-> TRUE, text |-> "Error: " \o error]

ToolCall(op, args, outcome) ==
    /\ Idle
    /\ \E o \in {outcome} :
        /\ call' = [op |-> op, args |-> args, result |-> NoResult,
                    error |-> o.error, trace |-> o.trace,
                    response |-> Respond(o.error)]
        /\ fs' = o.fs
        /\ tables' = o.tables
        /\ engine' = o.engine
    /\ UNCHANGED << config, cwd >>

LoadDataCall ==
    \E filePath \in ToolLoadPaths, failAt \in FailAts :
        ToolCall("load_data", << filePath, "" >>, loadData(State, filePath, "", failAt))

QueryDataCall ==
    \E query \in ToolQueries, tableName \in ToolTableNames, failAt \in {0, 1, TimedOut} :
        ToolCall("query_data", << query, tableName >>,
                 queryData(State, query, tableName, failAt))

DescribeDataCall ==
    \E tableName \in { "a", "sales", "missing" }, column \in ToolColumns,
       failAt \in FailAts :
        ToolCall("describe_data", << tableName, column >>,
                 describeData(State, tableName, column, failAt))

ExportDataCall ==
    \E source \in ToolSources, format \in ToolFormats,
       outputPath \in ToolOutputPaths, failAt \in {0, 1, TimedOut} :
        ToolCall("export_data", << source, format, outputPath >>,
                 exportDataTool(State, source, format, outputPath, failAt, ExportBytes))

VisualizeDataCall ==
    \E source \in ToolSources, failAt \in {0, 1, TimedOut}, chartable \in BOOLEAN :
        ToolCall("visualize_data", << source >>,
                 visualizeData(State, source, failAt, chartable))

\* tools/list-tables: listTables reads the registry and the limits
ListTablesCall ==
    ToolCall("list_tables", <<>>, Return(State, <<>>))

UnknownToolNames == { "drop_table", "" }

\* the switch's default case
UnknownToolCall ==
    \E name \in UnknownToolNames :
        ToolCall(name, <<>>, Throw(State, <<>>, "Unknown tool: " \o name))

Next ==
    \/ LoadDataCall
    \/ QueryDataCall
    \/ DescribeDataCall
    \/ ListTablesCall
    \/ ExportDataCall
    \/ VisualizeDataCall
    \/ UnknownToolCall
    \/ ReturnToCaller

Spec == Init /\ [][Next]_vars

(***************************************************************************)
(* Properties of the validators (under SpecValidators) and of the tools    *)
(* (under Spec).  A call's arguments, result, error and trace stay in call *)
(* until the call returns.                                                 *)
(***************************************************************************)
\* some hardcoded forbidden path pattern matches the text
HasForbiddenPattern(text) ==
    \E i \in 1..Len(BLOCKED_PATH_PATTERNS) :
        IF BLOCKED_PATH_PATTERNS[i].anchored
        THEN StartsWith(text, BLOCKED_PATH_PATTERNS[i].text)
        ELSE Includes(text, BLOCKED_PATH_PATTERNS[i].text)

ForbiddenPatternReason == "Path blocked by security rules: matches forbidden pattern"

\* C1: whenever validateFilePath is called with a path that matches a
\* hardcoded forbidden pattern, as supplied or in its resolved absolute
\* form, it returns allowed = false with the forbidden-pattern reason, under
\* every configuration (allowedPaths ["/"] included) and filesystem state.
C1_ForbiddenPatternAlwaysRejected ==
    (/\ call.op = "validateFilePath"
     /\ \/ HasForbiddenPattern(call.args[1])
        \/ HasForbiddenPattern(resolve(cwd, call.args[1])))
    => call.result = [allowed |-> FALSE, reason |-> ForbiddenPatternReason,
                      warning |-> Undefined]

\* a traversal path to an existing, allowed file is rejected although every
\* directory is allowed
C1_Witness ==
    /\ call.op = "validateFilePath"
    /\ call.args[1] = "data/../data/a.csv"
    /\ config.allowedPaths = << "/" >>
    /\ config.allowNetworkPaths
    /\ resolve(cwd, call.args[1]) \in DOMAIN fs.files
    /\ ~call.result.allowed
    /\ call.result.reason = ForbiddenPatternReason

\* the forbidden keywords the query contains as whole words, in any case
KeywordsPresent(query) ==
    { i \in 1..Len(BLOCKED_SQL_KEYWORDS) :
        KeywordRegexTest(toUpperCase(query), BLOCKED_SQL_KEYWORDS[i]) }

\* C2: whenever validateQuery is called with a query that contains a
\* forbidden keyword as a whole word, in any letter case, it returns
\* allowed = false, reason "SQL operation '<KEYWORD>' is not allowed" for a
\* keyword the query contains, and no warning: for readOnly true and false,
\* and also when the query matches the COPY/TO or the EXPORT_/WRITE_ rule.
C2_ForbiddenKeywordRejectedFirst ==
    (call.op = "validateQuery" /\ KeywordsPresent(call.args[1]) # {})
    => /\ ~call.result.allowed
       /\ call.result.warning = Undefined
       /\ \E i \in KeywordsPresent(call.args[1]) :
              call.result.reason
                  = "SQL operation '" \o BLOCKED_SQL_KEYWORDS[i] \o "' is not allowed"

\* a lower-case INSERT in a query that is also a COPY ... TO, readOnly off
C2_Witness ==
    /\ call.op = "validateQuery"
    /\ call.args[1] = "copy t to 'x'; insert into t values (1)"
    /\ ~config.readOnly
    /\ call.result = [allowed |-> FALSE,
                      reason |-> "SQL operation 'INSERT' is not allowed",
                      warning |-> Undefined]

\* the positions of the call's trace that hold an event of kind ev
EventsOf(ev) == { j \in 1..Len(call.trace) : call.trace[j].ev = ev }

\* C3: in every query_data, export_data, visualize_data and describe_data
\* call, each SQL text handed to the engine (executeQuery) was allowed by
\* validateQuery earlier in the same call, for exactly that text; and when
\* validateQuery denies, the call throws "Security: <reason>" without any
\* executeQuery.
C3_EngineOnlyAfterValidateQuery ==
    call.op \in {"query_data", "export_data", "visualize_data", "describe_data"}
    => /\ \A j \in EventsOf("executeQuery") :
              \E i \in EventsOf("validateQuery") :
                  /\ i < j
                  /\ call.trace[i].text = call.trace[j].text
                  /\ call.trace[i].allowed
       /\ \A i \in EventsOf("validateQuery") :
              ~call.trace[i].allowed
              => /\ EventsOf("executeQuery") = {}
                 /\ call.error = "Security: "
                        \o validateQuery(config, call.trace[i].text).reason

\* C4: a tool call creates directories or writes a file only when readOnly
\* is false and validatePath allowed the call's outputPath before; when
\* readOnly is true an export_data call with an outputPath ends in an
\* error without validatePath being called, and the filesystem stays as it
\* was.
C4_WritesOnlyWhenWritableAndPathAllowed ==
    /\ \A j \in EventsOf("mkdir") \cup EventsOf("writeFile") :
           /\ ~config.readOnly
           /\ call.op = "export_data"
           /\ \E i \in EventsOf("validatePath") :
                  /\ i < j
                  /\ call.trace[i].text = call.args[3]
                  /\ call.trace[i].allowed
    /\ (call.op = "export_data" /\ config.readOnly /\ call.args[3] # "")
       => /\ call.error # Undefined
          /\ EventsOf("validatePath") = {}
          /\ EventsOf("mkdir") \cup EventsOf("writeFile") = {}
    /\ config.readOnly => fs = InitialFs
    /\ \A f \in DOMAIN fs.files \ DOMAIN InitialFs.files :
           validatePath(config, cwd, InitialFs, f).allowed

\* an export written to an allowed path while readOnly is off
C4_Witness ==
    /\ call.op = "export_data"
    /\ call.args[3] = "out/x.csv"
    /\ ~config.readOnly
    /\ call.error = Undefined
    /\ EventsOf("writeFile") # {}
    /\ "/w/out/x.csv" \in DOMAIN fs.files

\* an export with an outputPath refused because readOnly is on, after its
\* query ran
C4_WitnessReadOnly ==
    /\ call.op = "export_data"
    /\ call.args[3] = "out/x.csv"
    /\ config.readOnly
    /\ EventsOf("executeQuery") # {}
    /\ call.error = "File export disabled (readOnly: true). Set readOnly: false in config to enable."

\* absolutePath is the directory dir or lies below it
IsWithinDirectory(absolutePath, dir) ==
    \/ absolutePath = dir
    \/ dir = "/"
    \/ StartsWith(absolutePath, dir \o "/")

IsWithinAllowedDirectory(path) ==
    \E i \in 1..Len(config.allowedPaths) :
        IsWithinDirectory(resolve(cwd, path), resolve(cwd, config.allowedPaths[i]))

\* C5: validateFilePath, for an existing file with an allowed extension and
\* no forbidden pattern, and validatePath, for a path with no forbidden
\* pattern, get past the allowed-directory check only when the resolved
\* path lies within a configured allowed directory; any other path, one
\* that only shares a string prefix with an allowed directory included, is
\* rejected with the "not within allowed paths" reason listing the
\* configured directories.
C5_AllowedOnlyWithinAllowedDirectory ==
    /\ (/\ call.op = "validateFilePath"
        /\ ~HasForbiddenPattern(call.args[1])
        /\ ~HasForbiddenPattern(resolve(cwd, call.args[1]))
        /\ InList(ALLOWED_EXTENSIONS, toLowerCase(extname(call.args[1])))
        /\ existsSync(fs, resolve(cwd, call.args[1]))
        /\ ~IsWithinAllowedDirectory(call.args[1]))
       => call.result = [allowed |-> FALSE,
                         reason |-> "Path '" \o call.args[1]
                                    \o "' is not within allowed paths: "
                                    \o Join(config.allowedPaths, ", "),
                         warning |-> Undefined]
    /\ (/\ call.op = "validatePath"
        /\ ~HasForbiddenPattern(call.args[1])
        /\ ~HasForbiddenPattern(resolve(cwd, call.args[1]))
        /\ ~IsWithinAllowedDirectory(call.args[1]))
       => call.result = [allowed |-> FALSE,
                         reason |-> "Output path '" \o call.args[1]
                                    \o "' is not within allowed paths: "
                                    \o Join(config.allowedPaths, ", "),
                         warning |-> Undefined]

\* the validateFilePath call in progress got past every check that precedes
\* the size check: patterns, extension, existence, allowed paths, network
\* paths, and stat succeeded
ReachesSizeCheck ==
    /\ call.op = "validateFilePath"
    /\ ~HasForbiddenPattern(call.args[1])
    /\ ~HasForbiddenPattern(resolve(cwd, call.args[1]))
    /\ InList(ALLOWED_EXTENSIONS, toLowerCase(extname(call.args[1])))
    /\ existsSync(fs, resolve(cwd, call.args[1]))
    /\ IsInAllowedPath(config, cwd, resolve(cwd, call.args[1]))
    /\ (config.allowNetworkPaths \/ ~LooksLikeNetworkPath(call.args[1]))
    /\ statSync(fs, resolve(cwd, call.args[1])).ok

SizeInBytes == statSync(fs, resolve(cwd, call.args[1])).size

\* C6: for a file of s bytes that passes every earlier check of
\* validateFilePath: s over 1000 MB is rejected with the "absolute maximum"
\* reason whatever maxFileSizeMB is; s of at most 1000 MB but over
\* maxFileSizeMB is rejected with the "configured maximum" reason naming
\* the configured value; any other s is allowed.
C6_SizeCeilings ==
    ReachesSizeCheck
    => IF SizeInBytes > 1000 * 1024 * 1024
       THEN /\ ~call.result.allowed
            /\ Includes(call.result.reason, "exceeds absolute maximum (1000MB)")
       ELSE IF SizeInBytes > config.maxFileSizeMB * 1024 * 1024
       THEN /\ ~call.result.allowed
            /\ Includes(call.result.reason,
                        "exceeds configured maximum ("
                        \o IntToStr(config.maxFileSizeMB) \o "MB)")
       ELSE call.result = [allowed |-> TRUE, reason |-> Undefined,
                           warning |-> Undefined]

\* one byte over 1000 MB, under a configured ceiling it exceeds as well
C6_Witness ==
    /\ ReachesSizeCheck
    /\ SizeInBytes = 1000 * 1024 * 1024 + 1
    /\ config.maxFileSizeMB = 100
    /\ call.result.reason = "File size (1000.0MB) exceeds absolute maximum (1000MB)"

\* exactly 1000 MB: the configured ceiling is the one cited
C6_WitnessConfigured ==
    /\ ReachesSizeCheck
    /\ SizeInBytes = 1000 * 1024 * 1024
    /\ call.result.reason = "File size (1000.0MB) exceeds configured maximum (100MB)"

\* exactly the configured 1 MB: allowed
C6_WitnessAtCeiling ==
    /\ ReachesSizeCheck
    /\ SizeInBytes = 1024 * 1024
    /\ config.maxFileSizeMB = 1
    /\ call.result.allowed

\* the character before or after the occurrence of keyword at position i of
\* upperQuery is a letter, a digit or an underscore
InsideIdentifierAt(upperQuery, keyword, i) ==
    \/ i > 1 /\ IsWordChar(CharAt(upperQuery, i - 1))
    \/ /\ i + Len(keyword) <= Len(upperQuery)
       /\ IsWordChar(CharAt(upperQuery, i + Len(keyword)))

\* forbidden keywords occur in the query, and only inside longer identifiers
KeywordsOnlyInsideIdentifiers(query) ==
    LET upperQuery == toUpperCase(query)
        occurrences ==
            { << k, i >> \in (1..Len(BLOCKED_SQL_KEYWORDS)) \X (1..Len(upperQuery)) :
                SubstringMatchAt(upperQuery, BLOCKED_SQL_KEYWORDS[k], i) }
    IN  /\ occurrences # {}
        /\ \A o \in occurrences :
               InsideIdentifierAt(upperQuery, BLOCKED_SQL_KEYWORDS[o[1]], o[2])

\* C7: a query in which forbidden keywords occur only as part of longer
\* identifiers, and which has neither COPY with TO nor an EXPORT_ or WRITE_
\* marker, is answered {allowed: true} by validateQuery, for readOnly true
\* and false.
C7_KeywordInsideIdentifierAllowed ==
    (/\ call.op = "validateQuery"
     /\ KeywordsOnlyInsideIdentifiers(call.args[1])
     /\ ~IsCopyTo(toUpperCase(call.args[1]))
     /\ ~HasWriteFunction(toUpperCase(call.args[1])))
    => call.result = [allowed |-> TRUE, reason |-> Undefined, warning |-> Undefined]

\* CREATE inside created_at and DROP inside dropship, readOnly on
C7_Witness ==
    /\ call.op = "validateQuery"
    /\ call.args[1] = "SELECT created_at FROM dropship"
    /\ KeywordsOnlyInsideIdentifiers(call.args[1])
    /\ config.readOnly
    /\ call.result.allowed

\* word occurs in the query as a token of its own, in any letter case
HasToken(query, word) ==
    \E i \in 1..Len(query) : WordMatchAt(toUpperCase(query), word, i)

\* C8: validateQuery rejects a query free of forbidden keywords with "COPY
\* TO operations are not allowed" exactly when the query has both a COPY
\* token and a TO token; "copy" and "to" inside longer identifiers
\* (copyright, total, customers) do not trigger the rule.
C8_CopyToRuleOnTokens ==
    (call.op = "validateQuery" /\ KeywordsPresent(call.args[1]) = {})
    => ((call.result.reason = "COPY TO operations are not allowed")
        <=> (HasToken(call.args[1], "COPY") /\ HasToken(call.args[1], "TO")))

\* the query gets past the forbidden-keyword rule and the COPY/TO rule
PassesKeywordAndCopyRules(query) ==
    /\ KeywordsPresent(query) = {}
    /\ ~(Includes(toUpperCase(query), "COPY") /\ Includes(toUpperCase(query), "TO"))

HasWriteMarker(query) ==
    Includes(toUpperCase(query), "EXPORT_") \/ Includes(toUpperCase(query), "WRITE_")

\* C9: a query that passes the forbidden-keyword and COPY/TO rules and
\* holds the marker EXPORT_ or WRITE_ in any letter case is denied by
\* validateQuery, with a reason and a warning that suggests readOnly: false,
\* when readOnly is true, and is answered {allowed: true} when readOnly is
\* false; for every other query the answer is the same under both values of
\* readOnly.
C9_WriteMarkerRuleFollowsReadOnly ==
    call.op = "validateQuery"
    => IF PassesKeywordAndCopyRules(call.args[1]) /\ HasWriteMarker(call.args[1])
       THEN IF config.readOnly
            THEN /\ ~call.result.allowed
                 /\ call.result.reason = "Export/write functions not allowed in readOnly mode"
                 /\ Includes(call.result.warning, "Set readOnly: false")
            ELSE call.result = [allowed |-> TRUE, reason |-> Undefined,
                                warning |-> Undefined]
       ELSE call.result = validateQuery([config EXCEPT !.readOnly = ~@], call.args[1])

\* a mixed-case WRITE_ marker, refused while readOnly is on
C9_Witness ==
    /\ call.op = "validateQuery"
    /\ call.args[1] = "SELECT Write_CSV(x) FROM t"
    /\ config.readOnly
    /\ ~call.result.allowed
    /\ call.result.warning # Undefined

\* the same query, allowed while readOnly is off
C9_WitnessWritable ==
    /\ call.op = "validateQuery"
    /\ call.args[1] = "SELECT Write_CSV(x) FROM t"
    /\ ~config.readOnly
    /\ call.result.allowed

\* C10: every load_data call whose filePath contains the traversal sequence
\* ".." ends in a security error before any file is read or parsed,
\* whatever allowedPaths is and wherever the path resolves to.
C10_LoadDataRejectsTraversal ==
    (call.op = "load_data" /\ Includes(call.args[1], ".."))
    => /\ StartsWith(call.error, "Security: ")
       /\ EventsOf("readFile") = {}
       /\ EventsOf("run") = {}

\* the keywords the documentation lists as always blocked
ALWAYS_BLOCKED_SQL ==
    << "DROP", "DELETE", "TRUNCATE", "ALTER", "CREATE", "INSERT", "UPDATE",
       "ATTACH", "DETACH", "EXEC", "EXECUTE", "PRAGMA", "VACUUM", "REINDEX" >>

\* C11: validateQuery rejects, under every configuration, every query that
\* contains as a whole word one of the keywords documented as always
\* blocked (DROP, DELETE, TRUNCATE, ALTER, CREATE, INSERT, UPDATE, ATTACH,
\* DETACH, EXEC, EXECUTE, PRAGMA, VACUUM, REINDEX).
C11_DocumentedKeywordsRejected ==
    (/\ call.op = "validateQuery"
     /\ \E i \in 1..Len(ALWAYS_BLOCKED_SQL) :
            HasToken(call.args[1], ALWAYS_BLOCKED_SQL[i]))
    => ~call.result.allowed

\* C12: every query_data call whose query text contains a forbidden keyword
\* as a whole word ends in a "Security: ..." error with no SQL handed to the
\* engine, whether or not tables are loaded and whether the text is taken
\* as SQL or as natural language.
C12_QueryDataRejectsForbiddenKeyword ==
    (call.op = "query_data" /\ KeywordsPresent(call.args[1]) # {})
    => /\ StartsWith(call.error, "Security: ")
       /\ EventsOf("executeQuery") = {}

ValidatorOps == {"validateFilePath", "validateQuery", "validatePath"}

\* the validateFilePath call in progress got as far as statSync, and
\* statSync threw
StatThrows ==
    /\ call.op = "validateFilePath"
    /\ ~HasForbiddenPattern(call.args[1])
    /\ ~HasForbiddenPattern(resolve(cwd, call.args[1]))
    /\ InList(ALLOWED_EXTENSIONS, toLowerCase(extname(call.args[1])))
    /\ existsSync(fs, resolve(cwd, call.args[1]))
    /\ IsInAllowedPath(config, cwd, resolve(cwd, call.args[1]))
    /\ (config.allowNetworkPaths \/ ~LooksLikeNetworkPath(call.args[1]))
    /\ ~statSync(fs, resolve(cwd, call.args[1])).ok

\* C13: every call of validateFilePath, validateQuery and validatePath
\* returns (it never throws) a result that has a reason if and only if
\* allowed is false; a file whose stats cannot be read is such a result,
\* with the "Cannot read file stats" reason.
C13_ReasonIffDenied ==
    call.op \in ValidatorOps
    => /\ call.error = Undefined
       /\ call.result.allowed \in BOOLEAN
       /\ (call.result.reason # Undefined) <=> ~call.result.allowed
       /\ call.result.reason # ""
       /\ StatThrows
          => call.result = [allowed |-> FALSE,
                            reason |-> "Cannot read file stats: "
                                       \o resolve(cwd, call.args[1]),
                            warning |-> Undefined]

\* statSync throws on an existing, allowed file
C13_Witness ==
    /\ StatThrows
    /\ call.args[1] = "data/locked.csv"
    /\ ~call.result.allowed
    /\ call.result.reason = "Cannot read file stats: /w/data/locked.csv"

OutputPatternReason == "Output path blocked by security rules: matches forbidden pattern"

OutputNotAllowedReason ==
    "Output path '" \o call.args[1] \o "' is not within allowed paths: "
        \o Join(config.allowedPaths, ", ")

OutputParentDir == dirname(resolve(cwd, call.args[1]))

OutputHasForbiddenPattern ==
    HasForbiddenPattern(call.args[1]) \/ HasForbiddenPattern(resolve(cwd, call.args[1]))

\* C16: validatePath checks the forbidden patterns (supplied and resolved
\* path), then containment in an allowed directory, then the existence of
\* the parent directory, and the first failing check gives the reason: a
\* path with a forbidden pattern gets the pattern reason whatever else is
\* wrong with it, a path without one that fails the containment check gets
\* the not-within-allowed-paths reason even when its parent is missing, and
\* a path inside an allowed directory whose parent is missing is rejected
\* naming the missing parent, which validatePath has not created.
C16_ValidatePathCheckOrder ==
    call.op = "validatePath"
    => /\ OutputHasForbiddenPattern
          => call.result = Denied(OutputPatternReason)
       /\ (~OutputHasForbiddenPattern /\ ~IsInAllowedPath(config, cwd, resolve(cwd, call.args[1])))
          => call.result = Denied(OutputNotAllowedReason)
       /\ (/\ ~OutputHasForbiddenPattern
           /\ IsWithinAllowedDirectory(call.args[1])
           /\ ~existsSync(InitialFs, OutputParentDir))
          => /\ call.result = Denied("Parent directory does not exist: " \o OutputParentDir)
             /\ ~existsSync(fs, OutputParentDir)
       /\ call.result.allowed
          => /\ ~OutputHasForbiddenPattern
             /\ IsInAllowedPath(config, cwd, resolve(cwd, call.args[1]))
             /\ existsSync(fs, OutputParentDir)
       /\ fs = InitialFs

\* an output path inside the allowed directory whose parent does not exist
C16_Witness ==
    /\ call.op = "validatePath"
    /\ call.args = << "data/new/x.csv" >>
    /\ config.allowedPaths = << "/w/data" >>
    /\ call.result = Denied("Parent directory does not exist: /w/data/new")
    /\ "/w/data/new" \notin fs.dirs

\* a path outside the allowed directory whose parent does not exist either
C16_WitnessOutsideAndNoParent ==
    /\ call.op = "validatePath"
    /\ call.args = << "/tmp/new/x.csv" >>
    /\ config.allowedPaths = << "/w/data" >>
    /\ call.result = Denied("Output path '/tmp/new/x.csv' is not within allowed paths: /w/data")

\* C17: every tool call request gets its one response: a call that threw
\* (security rejection, unknown tool, missing table, engine error, query
\* timeout) is answered with isError = true and the text 'Error: <message>',
\* a call that did not throw is answered without isError, the response can
\* be delivered, and once it is, the server takes the next request.
C17_EveryRequestAnswered ==
    /\ ~Idle
       => /\ call.response # NoResponse
          /\ call.error # Undefined
             => call.response = [isError |-> TRUE, text |-> "Error: " \o call.error]
          /\ call.error = Undefined => ~call.response.isError
          /\ ENABLED ReturnToCaller
    /\ Idle
       => /\ call.response = NoResponse
          /\ ENABLED DescribeDataCall
          /\ ENABLED ListTablesCall
          /\ ENABLED UnknownToolCall

\* a security rejection answered as an error, after a table was loaded
C17_Witness ==
    /\ call.op = "export_data"
    /\ tables # <<>>
    /\ StartsWith(call.error, "Security: ")
    /\ call.response = [isError |-> TRUE, text |-> "Error: " \o call.error]

C17_WitnessUnknownTool ==
    /\ call.op = "drop_table"
    /\ call.response = [isError |-> TRUE, text |-> "Error: Unknown tool: drop_table"]

C17_WitnessMissingTable ==
    /\ call.op = "describe_data"
    /\ call.args[1] = "missing"
    /\ call.response.isError
    /\ Includes(call.response.text, "not found")

C17_WitnessEngineError ==
    /\ call.op = "load_data"
    /\ call.response = [isError |-> TRUE, text |-> "Error: " \o EngineError]

C17_WitnessTimeout ==
    /\ call.op = "query_data"
    /\ call.response = [isError |-> TRUE, text |-> "Error: " \o QueryTimedOut]

\* C18: whatever load_data and dropTable requests have run and however
\* they overlapped, the registry holds at most limits.maxTablesLoaded
\* tables.
C18_RegistryWithinLimit ==
    (\A t \in Tasks : call[t].op \in {"none", "load_data", "dropTable"})
    => Len(tables) <= config.maxTablesLoaded

\* a load that starts when the registry is full fails with the
\* maximum-tables error
C18_LoadOnFullRegistryFails ==
    [][\A t \in Tasks :
          (/\ Len(tables) >= config.maxTablesLoaded
           /\ call[t].pc = "idle"
           /\ call'[t].op = "load_data")
          => /\ call'[t].pc = "done"
             /\ \/ StartsWith(call'[t].error, "Maximum table limit reached (")
                \/ StartsWith(call'[t].error, "Security: ")]_vars

Returned == call.op = "executeQuery" /\ call.error = Undefined

\* the number the query ends its own LIMIT clause with
ExplicitLimit == StrToNat(SubSeq(StripSemicolon(trim(call.args[1])),
                                 OuterLimitAt(call.args[1]),
                                 Len(StripSemicolon(trim(call.args[1])))))

\* C19: every QueryResult of executeQuery has at most limits.maxRowsOutput
\* rows, whatever LIMIT the query has or lacks; truncated is true exactly
\* when the engine returned more than maxRowsOutput rows; and a query that
\* ends with LIMIT n, n <= maxRowsOutput, gets at most n rows and truncated
\* false.
C19_RowsWithinOutputLimit ==
    Returned
    => /\ call.result.rows <= config.maxRowsOutput
       /\ call.result.truncated <=> call.allRows > config.maxRowsOutput
       /\ (OuterLimitAt(call.args[1]) # 0 /\ ExplicitLimit <= config.maxRowsOutput)
          => /\ call.result.rows <= ExplicitLimit
             /\ ~call.result.truncated

\* a LIMIT only inside a subquery: the engine returns all six rows and the
\* result is cut to the limit
C19_Witness ==
    /\ Returned
    /\ call.args = << "SELECT * FROM t, (SELECT 1 LIMIT 1) s" >>
    /\ call.allRows = MaxTableRows
    /\ call.result.rows = config.maxRowsOutput
    /\ call.result.truncated

C19_WitnessNoLimit ==
    /\ Returned
    /\ call.args = << "SELECT * FROM t" >>
    /\ tables[1].rowCount = MaxTableRows
    /\ call.result.rows = config.maxRowsOutput
    /\ call.result.truncated

C19_WitnessLimitAbove ==
    /\ Returned
    /\ call.args = << "SELECT * FROM t LIMIT 5" >>
    /\ call.allRows = 5
    /\ call.result.rows = config.maxRowsOutput

C19_WitnessLimitBelow ==
    /\ Returned
    /\ call.args = << "SELECT * FROM t LIMIT 2" >>
    /\ tables[1].rowCount = MaxTableRows
    /\ call.result = QueryResult(2, 2, FALSE)

\* the rows the query produces when no output limit is put on it
RowsOfQuery == EngineRowCount(call.args[1], tables[1].rowCount)

\* C20: QueryResult.rowCount is the number of rows of the query's result:
\* rows.length when truncated is false, and the number of rows the query
\* produces without the output limit when truncated is true.
C20_RowCountIsTotal ==
    Returned
    => /\ ~call.result.truncated => call.result.rowCount = call.result.rows
       /\ call.result.truncated => call.result.rowCount = RowsOfQuery

\* C21: every executeQuery call settles; it is rejected with the timeout
\* message only once its own timer has fired, and it has the engine's
\* answer when that came while its timer was still armed; once a call has
\* settled, no timer or engine answer changes its outcome, and the timers
\* and answers of earlier calls leave a later call as it is.
C21_QuerySettles ==
    /\ [](call.pc = "settled"
           => /\ call.error = QueryTimedOut => call.id \notin call.timers
              /\ call.id \in call.timers
                 => /\ call.error \in {Undefined, EngineError}
                    /\ call.id \notin call.pending
                    /\ call.error = Undefined
                       => call.result =
                            executeQuery(config.maxRowsOutput,
                                EngineRowCount(FinalQuery(call.args[1],
                                                          config.maxRowsOutput),
                                               tables[1].rowCount)))
    /\ [][/\ (call.pc = "settled" /\ call'.pc = "settled")
              => (call'.result = call.result /\ call'.error = call.error)
          /\ (call.pc = "racing" /\ call'.pc = "settled"
                 /\ call'.error = QueryTimedOut)
              => call.id \in call.timers /\ call.id \notin call'.timers]_vars
    /\ (call.pc = "racing") ~> (call.pc = "settled")

\* the second call has its result while the first call's timer, and its
\* own, are still armed
C21_Witness ==
    /\ call.pc = "settled"
    /\ call.id = 2
    /\ call.timers = {1, 2}
    /\ call.error = Undefined
    /\ call.result.rows > 0

\* a call rejected by its own timer while the engine is still running
C21_WitnessTimedOut ==
    /\ call.pc = "settled"
    /\ call.error = QueryTimedOut
    /\ call.id \in call.pending

\* C22: whatever initialize calls have run and however they overlapped,
\* one engine instance and one connection have been created, and the
\* tables of the registry exist behind the store's connection.
C22_InitializeIdempotent ==
    /\ engine.created <= 1
    /\ engine.connected <= 1
    /\ engine.initialized
       => \A i \in 1..Len(tables) : tables[i].name \in engine.db[engine.connection]

\* initialize calls that start after initialization completed return at
\* once and change nothing
C22_LateCallsChangeNothing ==
    [][\A t \in InitTasks :
          (engine.initialized /\ call[t].pc = "idle" /\ call'[t].pc # "idle")
          => /\ call'[t].pc = "done"
             /\ engine' = engine
             /\ tables' = tables]_vars

Entries(registry) == { registry[i] : i \in 1..Len(registry) }

\* C23: dropTable(name) answers false, touching neither registry nor
\* engine, when name is not a key of the registry, and goes on to drop when
\* it is; when it then returns true it has removed the entry of that name
\* and no other entry, and the engine's table of that name and no other.
C23_DropTableFrame ==
    [][\A t \in Tasks :
          /\ (call[t].pc = "idle" /\ call'[t].op = "dropTable")
             => /\ tables' = tables
                /\ engine' = engine
                /\ IF call'[t].args[1] \in { tables[i].name : i \in 1..Len(tables) }
                   THEN call'[t].pc = "dropTable" /\ call'[t].returned = Undefined
                   ELSE call'[t].pc = "done" /\ call'[t].returned = "false"
          /\ (call[t].pc = "dropTable" /\ call'[t].pc = "done")
             => /\ call'[t].returned = "true"
                /\ Entries(tables')
                     = { e \in Entries(tables) : e.name # call[t].args[1] }
                /\ Len(tables') = Cardinality(Entries(tables'))
                /\ engine' = engine \ {call[t].args[1]}]_vars

\* dropTable("a") returned true: a is gone from the registry, sales is kept
C23_Witness ==
    \E t \in Tasks :
        /\ call[t].op = "dropTable"
        /\ call[t].args = << "a" >>
        /\ call[t].returned = "true"
        /\ TableNames(tables) = << "sales" >>

C23_WitnessNotRegistered ==
    \E t \in Tasks :
        /\ call[t].op = "dropTable"
        /\ call[t].args = << "missing" >>
        /\ call[t].returned = "false"
        /\ tables # <<>>

\* C24: between two resetConfig calls the configuration is read at most
\* once; while a snapshot is cached, every getConfig() and loadConfig(path)
\* returns it, whatever the path, and no call but resetConfig changes it.
C24_LoadedOnceAndCached ==
    /\ [](call.reads <= 1)
    /\ [][~IsNull(config)
          => /\ call'.op # "resetConfig" => config' = config
             /\ call'.op \in {"getConfig", "loadConfig"} => call'.snapshot = config
             /\ call'.op \in {"validateQuery", "validateFilePath"}
                => call'.snapshot = config /\ call'.reads = call.reads]_vars

\* loadConfig("/w/alt.json") answered with the snapshot cached from the
\* file of the working directory
C24_Witness ==
    /\ call.op = "loadConfig"
    /\ call.args = << "/w/alt.json" >>
    /\ call.reads = 1
    /\ call.snapshot = config
    /\ config.readOnly = FALSE
    /\ config.maxFileSizeMB = 1000
    /\ config.maxTablesLoaded = 10

\* the file loadConfig(configPath) consults when nothing is cached
ConsultedPath(configPath) ==
    IF configPath # "" THEN configPath
    ELSE IF "/w/.mini-mcp.json" \in DOMAIN fs.configs THEN "/w/.mini-mcp.json"
    ELSE ""

\* no file, an unreadable file, a file that is not JSON, or a number
\* outside the schema's range
Unusable(path) ==
    \/ path \notin DOMAIN fs.configs
    \/ ~fs.configs[path].readable
    \/ ~fs.configs[path].json
    \/ \E f \in DOMAIN fs.configs[path].raw :
          \/ f = "maxFileSizeMB"
             /\ (fs.configs[path].raw[f] < 1 \/ fs.configs[path].raw[f] > 1000)
          \/ f = "maxRowsOutput"
             /\ (fs.configs[path].raw[f] < 1 \/ fs.configs[path].raw[f] > 100000)
          \/ f = "queryTimeoutMs"
             /\ (fs.configs[path].raw[f] < 1000 \/ fs.configs[path].raw[f] > 300000)
          \/ f = "maxTablesLoaded"
             /\ (fs.configs[path].raw[f] < 1 \/ fs.configs[path].raw[f] > 100)

FailingChecks ==
    { k \in 1..7 :
        CASE k = 1 -> \/ HasForbiddenPattern(call.args[1])
                      \/ HasForbiddenPattern(resolve(cwd, call.args[1]))
          [] k = 2 -> ~InList(ALLOWED_EXTENSIONS, toLowerCase(extname(call.args[1])))
          [] k = 3 -> ~existsSync(fs, resolve(cwd, call.args[1]))
          [] k = 4 -> ~IsInAllowedPath(config, cwd, resolve(cwd, call.args[1]))
          [] k = 5 -> ~config.allowNetworkPaths /\ LooksLikeNetworkPath(call.args[1])
          [] k = 6 -> /\ statSync(fs, resolve(cwd, call.args[1])).ok
                      /\ statSync(fs, resolve(cwd, call.args[1])).size > 1000 * 1048576
          [] k = 7 -> /\ statSync(fs, resolve(cwd, call.args[1])).ok
                      /\ statSync(fs, resolve(cwd, call.args[1])).size
                           > config.maxFileSizeMB * 1048576 }

\* how the reason of each check starts
CheckReasons ==
    << "Path blocked by security rules: matches forbidden pattern",
       "File extension '",
       "File not found: ",
       "Path '",
       "Network paths are not allowed (allowNetworkPaths = false)",
       "File size (",
       "File size (" >>

\* C26: validateFilePath answers with the reason of the first check that
\* fails in the order forbidden pattern, extension, existence, allowed
\* paths, network policy, absolute size ceiling, configured size ceiling;
\* only the network rejection carries a warning.
C26_FirstFailingCheckWins ==
    (call.op = "validateFilePath" /\ FailingChecks # {})
    => /\ ~call.result.allowed
       /\ StartsWith(call.result.reason, CheckReasons[Least(FailingChecks)])
       /\ Least(FailingChecks) = 6 => Includes(call.result.reason, "exceeds absolute maximum")
       /\ Least(FailingChecks) = 7 => Includes(call.result.reason, "exceeds configured maximum")
       /\ (call.result.warning # Undefined) <=> Least(FailingChecks) = 5

\* a missing file outside the allowed directory: not found
C26_Witness ==
    /\ call.op = "validateFilePath"
    /\ call.args = << "/tmp/none.csv" >>
    /\ config.allowedPaths = << "/w/data" >>
    /\ FailingChecks = {3, 4}
    /\ call.result = Denied("File not found: /tmp/none.csv")

\* a forbidden pattern, a disallowed extension and a missing file at once
C26_WitnessPatternAndExtension ==
    /\ call.op = "validateFilePath"
    /\ call.args = << "../evil.exe" >>
    /\ {1, 2, 3} \subseteq FailingChecks
    /\ call.result = Denied("Path blocked by security rules: matches forbidden pattern")

\* C27: whatever loads have run, those that failed at CREATE TABLE or at an
\* INSERT included, the names of the registry are the tables of the engine.
C27_RegistryMatchesEngine ==
    { tables[i].name : i \in 1..Len(tables) } = engine

\* the name load_data gives the table of a file
LoadName(filePath) ==
    sanitizeName(basename(resolve(cwd, filePath),
                          toLowerCase(extname(resolve(cwd, filePath)))))

\* the file passes the path checks and parses
Loadable(filePath) ==
    /\ validateFilePath(config, cwd, fs, resolve(cwd, filePath)).allowed
    /\ resolve(cwd, filePath) \in DOMAIN fs.files
    /\ fs.files[resolve(cwd, filePath)].parseOk

\* C28: a load is registered under the sanitized name; a load whose
\* sanitized name is already registered, of a loadable file and with the
\* engine working, is accepted whatever the size of the registry, replaces
\* the entry and leaves the number of entries unchanged.
C28_ReloadReplaces ==
    [][(/\ call'.op = "load_data"
        /\ Loadable(call'.args[1])
        /\ call'.error # EngineError)
       => /\ call'.error = Undefined
             => /\ HasTable(tables', LoadName(call'.args[1]))
                /\ \A i \in 1..Len(tables') :
                      tables'[i].name = sanitizeName(tables'[i].name)
          /\ HasTable(tables, LoadName(call'.args[1]))
             => /\ call'.error = Undefined
                /\ Len(tables') = Len(tables)]_vars

\* the filesystem with no file at absolutePath
FsWithout(files, absolutePath) ==
    [files EXCEPT !.files = [p \in DOMAIN files.files \ {absolutePath} |-> files.files[p]]]

\* C29: for a path outside every allowed directory, validateFilePath
\* answers the same with the file present and with it absent.
C29_NoExistenceProbing ==
    (/\ call.op = "validateFilePath"
     /\ ~IsWithinAllowedDirectory(call.args[1])
     /\ resolve(cwd, call.args[1]) \in DOMAIN fs.files)
    => call.result = validateFilePath(config, cwd,
                                      FsWithout(fs, resolve(cwd, call.args[1])),
                                      call.args[1])

\* the request of task t is a load_data whose content went to the CSVParser
ParsedAsCSV(t) ==
    /\ call[t].op = "load_data"
    /\ call[t].error \in {Undefined, EngineError}
    /\ getParser(extname(call[t].args[1])) = "CSVParser"

\* C30: the delimiter a load_data request parses with is the one of the
\* path context its own getParser call stored, the extension of the file
\* being loaded: tab for a .tsv file, otherwise a delimiter that occurs
\* most often in the first line of the content, the comma when none occurs;
\* this holds whatever other requests are in flight.
C30_ParsedInOwnPathContext ==
    \A t \in Tasks :
        ParsedAsCSV(t) =>
            LET path == resolve(cwd, call[t].args[1])
                line == FirstLine(fs.contents[path])
                d == call[t].delimiter
            IN  /\ call[t].context = toLowerCase(extname(path))
                /\ IF EndsWith(toLowerCase(path), ".tsv") THEN d = "\t"
                   ELSE /\ \E k \in 1..Len(Delimiters) : d = Delimiters[k]
                        /\ \A k \in 1..Len(Delimiters) :
                              MatchCount(line, Delimiters[k]) <= MatchCount(line, d)
                        /\ MatchCount(line, d) = 0 => d = ","

\* a .tsv load with more commas than tabs in its first line waits on the
\* engine while a later request has left another path in the parser
C30_Witness ==
    \E t \in Tasks :
        /\ ParsedAsCSV(t)
        /\ call[t].args[1] = "data/mixed.tsv"
        /\ call[t].pc \in {"parse", "drop", "create", "insert"}
        /\ call[t].delimiter = "\t"
        /\ call[CSVParserIndex].filePath \in {".csv", ".json"}

\* a .csv load parsed with the semicolon while a .tsv load is in flight
C30_WitnessCsvAfterTsv ==
    \E t \in Tasks, u \in Tasks :
        /\ ParsedAsCSV(t) /\ ParsedAsCSV(u)
        /\ call[u].args[1] = "data/t.tsv" /\ call[u].pc = "parse"
        /\ call[t].args[1] = "data/semi.csv" /\ call[t].delimiter = ";"
        /\ call[CSVParserIndex].filePath = ".csv"

====
